---- MODULE Spec2Model ----
(***************************************************************************)
(* Model of scripts/rds_upgrade_tool.py: the blue/green upgrade            *)
(* orchestrator (main) run repeatedly against one provider account, the    *)
(* switchover poll loop (wait_for_bg_switchover) and the confirmation      *)
(* prompt (timeout_input) on their own; of the version functions of        *)
(* scripts/get_older_rds.py; and of handle_parameter_groups_upgrade in     *)
(* scripts/major_pg_upgrade_tool.py.                                       *)
(*                                                                         *)
(* The provider (RDS) is the environment: it holds the resource named by   *)
(* the identifier, at most one blue/green deployment for it, and the       *)
(* superseded ("old") resource a switchover leaves behind.  Every API call *)
(* may fail.  A run of main is a sequence of steps tracked by pc.          *)
(***************************************************************************)
EXTENDS Integers, Sequences, FiniteSets, TLC

\* ------------------------------------------------------------------ bounds
MaxMajor == 1        \* engine major versions are 1..MaxMajor
MaxMinor == 2        \* engine minor versions are 0..MaxMinor
MaxMembers == 2      \* member instances of an Aurora cluster
MaxRuns == 2         \* invocations of the tool
MaxTimeout == 4      \* timeouts drawn for the poll loop checked alone
MaxInterval == 3     \* intervals drawn for the poll loop checked alone
MaxParts == 2        \* dot-separated parts of a version string in get_older_rds
MaxIdentifierLength == 63  \* characters of an identifier given to the tool
MaxDeployments == 2  \* blue/green deployments in the account
MaxAlarms == 2       \* metric alarms in the account

\* ------------------------------------------------------- program constants
DefaultTimeout == 300       \* wait_for_bg_switchover(timeout=300)
DefaultInterval == 30       \* wait_for_bg_switchover(interval=30)
MinBackupRetention == 1     \* if backup_retention_period < 1
ExitOk == 0                 \* sys.exit(0)
ExitFail == 1               \* sys.exit(1), and an uncaught exception
NoExit == 0 - 1             \* the process has not exited

\* ------------------------------------------------------------------- state
VARIABLES
    \* provider state
    resKind,          \* what the identifier names: "cluster", "instance", "none"
    engine,           \* Engine of that resource
    engineVersion,    \* EngineVersion of that resource (release tuple)
    backupRetention,  \* BackupRetentionPeriod of that resource
    snapshots,        \* number of manual snapshots of that resource
    bgSnapshots,      \* what snapshots was when the deployment was created
    bgStatus,         \* Status of the deployment for the identifier, "NONE" if absent
    bgTarget,         \* TargetEngineVersion of that deployment
    oldExists,        \* the superseded resource still exists
    memberState,      \* members of the superseded cluster: "available", "deleting", "gone"
    \* one run of main
    runs,             \* invocations started so far
    pc,               \* position of the run
    target_version,   \* args.target_version
    instance_type,    \* 'RDS' / 'Aurora' as returned by validate_rds_or_aurora
    current_version,  \* db_instance.get('EngineVersion')
    upgrade_needed,   \* result of validate_versions
    bg_identifier,    \* result of get_blue_green_deployment_identifier ("None" or "bg")
    switchover_status,\* main's switchover_status
    blocked,          \* result of fetch_and_check, "unset" before the call
    database_name,    \* result of delete_blue_green_deployment ("None" or "old")
    instances,        \* member listing inside delete_database_instance_or_cluster
    next_instance,    \* position of "for instance in instances"
    exitCode,         \* exit status of the process, NoExit while running
    outcome,          \* what the run reported when it ended
    writes,           \* provider write calls issued by this run, in order
    resume_status,    \* what the status read of the existing deployment returned
    observed,         \* every status a status check of this run returned
    waited,           \* main has called wait_for_bg_switchover in this run
    lookups,          \* describe calls validate_rds_or_aurora issued, in order
    \* wait_for_bg_switchover
    timeout, interval,\* its parameters
    elapsed,          \* time.monotonic() - starttime
    wait_status,      \* its local switchover_status, "UNBOUND" before assignment
    checks,           \* status checks issued by this invocation
    waitResult,       \* "running", "returned", "raised", or "idle"
    \* timeout_input and its reader thread
    fg,               \* position of the foreground thread in create_snapshot
    reader,           \* input_thread: "unstarted", "reading", "finished"
    user_input,       \* user_input[0]
    windowElapsed,    \* the timeout given to join() has run out
    confirm_snapshot, \* what timeout_input returned, "unset" before
    readAt,           \* when the read ended: "never", "in_window", "late", "after_check"
    \* get_older_rds
    vpc,              \* "idle", "start", "compared", "sorted"
    version1,         \* EngineVersion of a listed resource, split at the dots
    version2,         \* a second version string (sys.argv[1], or another resource's)
    less,             \* version_less_than(parse(version1), parse(version2))
    rds_instances,    \* the two strings after sort(key=parse_engine_version)
    \* major_pg_upgrade_tool
    pg_pc,            \* position inside handle_parameter_groups_upgrade
    oldClusterPages,  \* pages of describe_db_cluster_parameters of the old group
    oldInstancePages, \* pages of describe_db_parameters of the old group
    cluster_pg,       \* get_parameter_groups()[0], "None" or a group name
    instance_pg,      \* get_parameter_groups()[1], "None" or a group name
    new_param_group_name, \* name returned by the last create_*_parameter_group
    user_params,      \* result of the last get_user_defined_*_parameters
    \* check_pg_slots_and_extensions
    pf_pc,            \* position inside fetch_and_check
    secret_host,      \* rds_secret.get("host"): "missing", "empty" or "set"
    secret_password,  \* rds_secret.get("password"): "missing", "empty" or "set"
    pg_replication_slots, \* per slot name: "absent", "inactive" or "active"
    installed,        \* extname of every row of pg_extension
    replication_slots_flag, \* "unset", "True" or "False"
    extensions_flag,  \* "unset", "True" or "False"
    pf_calls,         \* functions fetch_and_check has called, in order
    pf_error,         \* what raised inside fetch_and_check, "none" if nothing
    pf_result,        \* "unset", "True", "False" or "RuntimeError"
    \* initialize_aws_clients
    ic_pc,            \* position inside initialize_aws_clients
    environ,          \* os.environ, per variable: "absent", "empty" or "set"
    clients_created,  \* boto3.client(..) calls that returned, in order
    api_calls,        \* provider API calls issued by initialize_aws_clients
    \* initiate_blue_green_upgrade
    ib_pc,            \* position inside initiate_blue_green_upgrade
    backup_retention_period, \* its local, <<>> before it is read
    retention_events, \* outcome of the modify call and of the waiter, in order
    retention_at_create, \* <<BackupRetentionPeriod>> when create was issued
    \* the deployment name
    identifier,       \* args.identifier, a sequence of characters
    blue_green_deployment_name, \* the name passed to the creation call, <<>> before
    \* the account's deployments
    deployments,      \* response['BlueGreenDeployments'], in listing order
    found,            \* position in it of what the lookup returned, 0 for None
    \* aws-aurora-alarms
    al_pc,            \* position of the script
    fetched,          \* the alarms as describe_alarms returned them
    all_alarms,       \* all_alarms, whose dictionaries the loop changes in place
    alarm_index,      \* position of "for alarm in all_alarms"
    new_alarm_name_reader, \* the loop's local of that name
    new_dimensions_reader, \* the loop's local of that name
    puts              \* put_metric_alarm calls: the arguments and whether it failed

provider == <<resKind, engine, engineVersion, backupRetention, snapshots,
              bgSnapshots,
              bgStatus, bgTarget, oldExists, memberState>>
run == <<runs, pc, target_version, instance_type, current_version,
         upgrade_needed, bg_identifier, switchover_status, blocked,
         database_name, instances, next_instance, exitCode, outcome,
         writes, resume_status, observed, waited, lookups>>
wait == <<timeout, interval, elapsed, wait_status, checks, waitResult>>
input == <<fg, reader, user_input, windowElapsed, confirm_snapshot, readAt>>
older == <<vpc, version1, version2, less, rds_instances>>
pgroups == <<pg_pc, oldClusterPages, oldInstancePages, cluster_pg,
             instance_pg, new_param_group_name, user_params>>
pflight == <<pf_pc, secret_host, secret_password, pg_replication_slots,
             installed,
             replication_slots_flag, extensions_flag, pf_calls, pf_error,
             pf_result>>
clients == <<ic_pc, environ, clients_created, api_calls>>
initiate == <<ib_pc, backup_retention_period, retention_events,
              retention_at_create>>
naming == <<identifier, blue_green_deployment_name>>
account == <<deployments, found>>
alarms == <<al_pc, fetched, all_alarms, alarm_index, new_alarm_name_reader,
            new_dimensions_reader, puts>>
extra == <<pflight, clients, initiate, naming, account, alarms>>
aux == <<input, older, pgroups, extra>>
vars == <<provider, run, wait, aux>>

\* ----------------------------------------------------------------- domains
Members == 1..MaxMembers
Versions == {<<m>> : m \in 1..MaxMajor}
            \cup {<<m, n>> : m \in 1..MaxMajor, n \in 0..MaxMinor}
Engines == {"aurora-postgresql", "aurora-mysql", "postgres", "mysql"}
Statuses == {"PROVISIONING", "AVAILABLE", "SWITCHOVER_IN_PROGRESS",
             "SWITCHOVER_COMPLETED", "SWITCHOVER_FAILED"}
NoVersion == <<>>

\* ------------------------------------------------- packaging.version.parse
\* packaging compares release tuples with trailing zeros dropped.
RECURSIVE StripZeros(_)
StripZeros(v) ==
    IF Len(v) > 0 /\ v[Len(v)] = 0 THEN StripZeros(SubSeq(v, 1, Len(v) - 1))
    ELSE v

\* Python tuple comparison: first differing component decides, a proper
\* prefix is smaller.
RECURSIVE TupleLess(_, _)
TupleLess(a, b) ==
    IF Len(b) = 0 THEN FALSE
    ELSE IF Len(a) = 0 THEN TRUE
    ELSE IF a[1] /= b[1] THEN a[1] < b[1]
    ELSE TupleLess(Tail(a), Tail(b))

VersionParse(v) == StripZeros(v)

\* validate_versions: "equal", "upgrade" or "downgrade" is what it logs,
\* TRUE/FALSE what it returns.
VersionCase(cur, tgt) ==
    IF VersionParse(cur) = VersionParse(tgt) THEN "equal"
    ELSE IF TupleLess(VersionParse(cur), VersionParse(tgt)) THEN "upgrade"
    ELSE "downgrade"

\* Variant: every difference counts as an upgrade ("!=" for "<").
validate_versions_ne(cur, tgt) == VersionCase(cur, tgt) /= "equal"

\* Variant: equal versions count as an upgrade ("<=" for "<").
validate_versions_le(cur, tgt) == VersionCase(cur, tgt) /= "downgrade"

validate_versions(cur, tgt) ==
    IF VersionCase(cur, tgt) = "equal" THEN FALSE
    ELSE IF VersionCase(cur, tgt) = "upgrade" THEN TRUE
    ELSE FALSE

\* ------------------------------------------------------------------- calls
Call(name, arg) == <<name, arg>>
Issue(name, arg) == writes' = Append(writes, Call(name, arg))
Issued(name) == \E i \in 1..Len(writes) : writes[i][1] = name
CountIssued(name) == Cardinality({i \in 1..Len(writes) : writes[i][1] = name})

\* -------------------------------------------------------------------- Init
\* The provider before the tool has ever run: no deployment, no superseded
\* resource.  Version and retention only matter for a resource the tool
\* accepts.
InitProvider ==
    /\ resKind \in {"cluster", "instance", "none"}
    /\ engine \in (IF resKind = "none" THEN {"postgres"} ELSE Engines)
    /\ engineVersion \in Versions
    /\ backupRetention \in 0..MinBackupRetention
    /\ snapshots = 0
    /\ bgSnapshots = 0
    /\ bgStatus = "NONE"
    /\ bgTarget = NoVersion
    /\ oldExists = FALSE
    /\ memberState = [m \in Members |-> "gone"]

InitRun ==
    /\ runs = 0
    /\ pc = "idle"
    /\ target_version = NoVersion
    /\ instance_type = "None"
    /\ current_version = NoVersion
    /\ upgrade_needed = FALSE
    /\ bg_identifier = "None"
    /\ switchover_status = "None"
    /\ blocked = "unset"
    /\ database_name = "None"
    /\ instances = <<>>
    /\ next_instance = 1
    /\ exitCode = NoExit
    /\ outcome = "none"
    /\ writes = <<>>
    /\ resume_status = "unset"
    /\ observed = {}
    /\ waited = FALSE
    /\ lookups = <<>>

InitWait ==
    /\ timeout = DefaultTimeout
    /\ interval = DefaultInterval
    /\ elapsed = 0
    /\ wait_status = "UNBOUND"
    /\ checks = 0
    /\ waitResult = "idle"

\* Nothing is being read from the terminal.
InitInput ==
    /\ fg = "idle"
    /\ reader = "unstarted"
    /\ user_input = "None"
    /\ windowElapsed = FALSE
    /\ confirm_snapshot = "unset"
    /\ readAt = "never"

\* get_older_rds is not running.
InitOlder ==
    /\ vpc = "idle"
    /\ version1 = <<>>
    /\ version2 = <<>>
    /\ less = FALSE
    /\ rds_instances = <<>>

\* handle_parameter_groups_upgrade is not running.
InitPGroups ==
    /\ pg_pc = "idle"
    /\ oldClusterPages = <<>>
    /\ oldInstancePages = <<>>
    /\ cluster_pg = "None"
    /\ instance_pg = "None"
    /\ new_param_group_name = "None"
    /\ user_params = <<>>

\* The database behind the identifier, as fetch_and_check will find it, and
\* fetch_and_check not running.
SlotNames == {"slot_a", "slot_b"}
OtherExtensions == {"plpgsql"}
InitPreflight ==
    /\ pf_pc = "idle"
    /\ secret_host = "set"
    /\ secret_password = "set"
    /\ pg_replication_slots = [n \in SlotNames |-> "absent"]
    /\ installed = OtherExtensions
    /\ replication_slots_flag = "unset"
    /\ extensions_flag = "unset"
    /\ pf_calls = <<>>
    /\ pf_error = "none"
    /\ pf_result = "unset"

\* The variables initialize_aws_clients looks for.
EnvVars == {"AWS_REGION", "AWS_ACCESS_KEY_ID", "AWS_SECRET_ACCESS_KEY",
            "AWS_SESSION_TOKEN"}

\* A fully configured environment, initialize_aws_clients not running.
InitClients ==
    /\ ic_pc = "idle"
    /\ environ = [v \in EnvVars |-> "set"]
    /\ clients_created = <<>>
    /\ api_calls = <<>>

\* initiate_blue_green_upgrade is not running.
InitInitiate ==
    /\ ib_pc = "idle"
    /\ backup_retention_period = <<>>
    /\ retention_events = <<>>
    /\ retention_at_create = <<>>

\* No name has been derived.
InitNaming ==
    /\ identifier = <<"d", "b">>
    /\ blue_green_deployment_name = <<>>

\* An account without deployments.
InitAccount ==
    /\ deployments = <<>>
    /\ found = 0

\* The alarm script is not running.
InitAlarms ==
    /\ al_pc = "idle"
    /\ fetched = <<>>
    /\ all_alarms = <<>>
    /\ alarm_index = 1
    /\ new_alarm_name_reader = <<>>
    /\ new_dimensions_reader = <<>>
    /\ puts = <<>>

InitExtra == InitPreflight /\ InitClients /\ InitInitiate /\ InitNaming
             /\ InitAccount /\ InitAlarms

InitAux == InitInput /\ InitOlder /\ InitPGroups /\ InitExtra

Init == InitProvider /\ InitRun /\ InitWait /\ InitAux

\* ------------------------------------------------------------ process exit
Exit(code, what) ==
    /\ pc' = "done"
    /\ exitCode' = code
    /\ outcome' = what

Running(at) == pc = at /\ exitCode = NoExit

\* ---------------------------------------------------------- a run of main
\* The operator invokes the tool with a target version.
StartRun ==
    /\ pc \in {"idle", "done"}
    /\ runs < MaxRuns
    /\ \E t \in Versions : target_version' = t
    /\ runs' = runs + 1
    /\ pc' = "init_clients"
    /\ instance_type' = "None"
    /\ current_version' = NoVersion
    /\ upgrade_needed' = FALSE
    /\ bg_identifier' = "None"
    /\ switchover_status' = "None"
    /\ blocked' = "unset"
    /\ database_name' = "None"
    /\ instances' = <<>>
    /\ next_instance' = 1
    /\ exitCode' = NoExit
    /\ outcome' = "none"
    /\ writes' = <<>>
    /\ resume_status' = "unset"
    /\ observed' = {}
    /\ waited' = FALSE
    /\ lookups' = <<>>
    /\ waitResult' = "idle"
    /\ elapsed' = 0
    /\ checks' = 0
    /\ wait_status' = "UNBOUND"
    /\ UNCHANGED <<provider, timeout, interval>>
    /\ UNCHANGED aux

\* initialize_aws_clients: a missing variable or a failing identity call
\* ends the process with status 1.
initialize_aws_clients ==
    /\ Running("init_clients")
    /\ \E r \in {"ok", "missing_env", "client_error"} :
         IF r = "ok"
         THEN /\ pc' = "validate"
              /\ UNCHANGED <<exitCode, outcome>>
         ELSE Exit(ExitFail, r)
    /\ UNCHANGED <<provider, wait, runs, target_version, instance_type, lookups,
                   current_version, upgrade_needed, bg_identifier,
                   switchover_status, blocked, database_name, instances, next_instance,
                   writes, resume_status, observed, waited>>
    /\ UNCHANGED aux

\* 'aurora' in engine.lower()
IsAuroraEngine(e) == e \in {"aurora-postgresql", "aurora-mysql"}

\* if 'aurora' in engine.lower(): return 'Aurora', cluster
IsAuroraCluster(e) == IsAuroraEngine(e)

\* Variant: any engine whose name mentions postgres is accepted.
IsPostgresInstance_Any(e) == e \in {"postgres", "aurora-postgresql"}

\* if engine == 'postgres': return 'RDS', instance
IsPostgresInstance(e) == e = "postgres"

\* validate_rds_or_aurora followed by db_instance.get('EngineVersion').
\* clusterErr: describe_db_clusters fails with something other than
\* not-found, which nothing catches.  instErr: describe_db_instances fails.
validate_rds_or_aurora ==
    /\ Running("validate")
    /\ \E clusterErr, instErr \in BOOLEAN :
         IF clusterErr
         THEN /\ Exit(ExitFail, "crash")
              /\ lookups' = <<"describe_db_clusters">>
              /\ UNCHANGED <<instance_type, current_version>>
         ELSE IF resKind = "cluster" /\ IsAuroraCluster(engine)
         THEN /\ instance_type' = "Aurora"
              /\ current_version' = engineVersion
              /\ lookups' = <<"describe_db_clusters">>
              /\ pc' = "versions"
              /\ UNCHANGED <<exitCode, outcome>>
         ELSE IF ~instErr /\ resKind = "instance" /\ IsPostgresInstance(engine)
         THEN /\ instance_type' = "RDS"
              /\ current_version' = engineVersion
              /\ lookups' = <<"describe_db_clusters", "describe_db_instances">>
              /\ pc' = "versions"
              /\ UNCHANGED <<exitCode, outcome>>
         ELSE /\ Exit(ExitFail, "not_found")
              /\ lookups' = <<"describe_db_clusters", "describe_db_instances">>
              /\ UNCHANGED <<instance_type, current_version>>
    /\ UNCHANGED <<provider, wait, runs, target_version, upgrade_needed,
                   bg_identifier, switchover_status, blocked, database_name,
                   instances, next_instance, writes, resume_status, observed, waited>>
    /\ UNCHANGED aux

\* upgrade_needed = validate_versions(current_version, target_version)
ValidateVersions ==
    /\ Running("versions")
    /\ upgrade_needed' = validate_versions(current_version, target_version)
    /\ pc' = "lookup_bg"
    /\ UNCHANGED <<provider, wait, runs, target_version, instance_type, lookups,
                   current_version, bg_identifier, switchover_status, blocked,
                   database_name, instances, next_instance, exitCode, outcome, writes,
                   resume_status, observed, waited>>
    /\ UNCHANGED aux

\* get_blue_green_deployment_identifier: the listing may fail, which is
\* reported as no deployment.
get_blue_green_deployment_identifier ==
    /\ Running("lookup_bg")
    /\ \E ok \in BOOLEAN :
         bg_identifier' = IF ok /\ bgStatus /= "NONE" THEN "bg" ELSE "None"
    /\ pc' = "gate"
    /\ UNCHANGED <<provider, wait, runs, target_version, instance_type, lookups,
                   current_version, upgrade_needed, switchover_status, blocked,
                   database_name, instances, next_instance, exitCode, outcome, writes,
                   resume_status, observed, waited>>
    /\ UNCHANGED aux

\* if upgrade_needed is False and switchover_status is None: sys.exit(0)
GateExits == upgrade_needed = FALSE /\ switchover_status = "None"

Gate ==
    /\ Running("gate")
    /\ IF GateExits
       THEN Exit(ExitOk, "no_upgrade_needed")
       ELSE /\ pc' = "branch"
            /\ UNCHANGED <<exitCode, outcome>>
    /\ UNCHANGED <<provider, wait, runs, target_version, instance_type, lookups,
                   current_version, upgrade_needed, bg_identifier,
                   switchover_status, blocked, database_name, instances, next_instance,
                   writes, resume_status, observed, waited>>
    /\ UNCHANGED aux

\* check_blue_green_deployment_status: the status, or None when the read
\* fails or returns no deployment.
StatusReads == {"None"} \cup (IF bgStatus = "NONE" THEN {} ELSE {bgStatus})

\* if bg_identifier: switchover_status = check_blue_green_deployment_status(..)
CheckExistingDeployment ==
    /\ Running("branch")
    /\ bg_identifier /= "None"
    /\ \E s \in StatusReads :
         /\ switchover_status' = s
         /\ resume_status' = s
         /\ observed' = observed \cup {s}
    /\ pc' = "switchover"
    /\ UNCHANGED <<provider, wait, runs, target_version, instance_type, lookups,
                   current_version, upgrade_needed, bg_identifier, blocked,
                   database_name, instances, next_instance, exitCode, outcome, writes,
                   waited>>
    /\ UNCHANGED aux

\* fetch_and_check: blocked when a replication slot is active or a flagged
\* extension is installed.
fetch_and_check(activeSlots, flaggedExtension) == activeSlots \/ flaggedExtension

\* upgrade_needed and switchover_status is None and ..: the conjuncts that
\* decide whether fetch_and_check is called at all.
NeedsPreflight == upgrade_needed /\ switchover_status = "None"

\* Variant: the result of the pre-flight check is ignored.
PreflightAllows_Ignored(isBlocked) == TRUE

\* Variant: the "not" is missing.
PreflightAllows_Inverted(isBlocked) == isBlocked

\* .. and not fetch_and_check(identifier)
PreflightAllows(isBlocked) == ~isBlocked

\* Variant: the retention step comes before the snapshot step.
ProvisioningSteps_RetentionFirst == <<"bg_describe", "snapshot", "bg_create">>

\* What main and initiate_blue_green_upgrade do once the pre-flight check
\* allows it, in program order: create_snapshot, then inside
\* initiate_blue_green_upgrade the retention step and the creation call.
ProvisioningSteps == <<"snapshot", "bg_describe", "bg_create">>

FirstStep == ProvisioningSteps[1]
StepAfter(step) ==
    ProvisioningSteps[(CHOOSE i \in 1..Len(ProvisioningSteps) :
                          ProvisioningSteps[i] = step) + 1]

\* else-branch of main: the pre-flight check.  An error in it is raised and
\* nothing in main catches it.
Preflight ==
    /\ Running("branch")
    /\ bg_identifier = "None"
    /\ \E err, slots, ext \in BOOLEAN :
         IF ~NeedsPreflight
         THEN /\ pc' = "switchover"
              /\ UNCHANGED <<blocked, exitCode, outcome>>
         ELSE IF err
         THEN /\ Exit(ExitFail, "crash")
              /\ blocked' = "error"
         ELSE /\ blocked' = IF fetch_and_check(slots, ext) THEN "yes" ELSE "no"
              /\ pc' = IF PreflightAllows(fetch_and_check(slots, ext))
                       THEN FirstStep ELSE "switchover"
              /\ UNCHANGED <<exitCode, outcome>>
    /\ UNCHANGED <<provider, wait, runs, target_version, instance_type, lookups,
                   current_version, upgrade_needed, bg_identifier,
                   switchover_status, database_name, instances, next_instance, writes,
                   resume_status, observed, waited>>
    /\ UNCHANGED aux

\* ------------------------------------------------------------ create_snapshot
\* What timeout_input can hand back: a typed answer, 'no' on timeout, or None
\* when the read failed.
Answers == {"yes", "YES", "no", "None"}
Lower(a) == IF a = "YES" THEN "yes" ELSE a

\* confirm_snapshot.lower() != 'yes' skips; None has no lower() and the
\* resulting exception is caught, which skips as well.
SnapshotConfirmed(answer) == answer /= "None" /\ Lower(answer) = "yes"

SnapshotCall == IF instance_type = "RDS" THEN "create_db_snapshot"
                ELSE "create_db_cluster_snapshot"

\* create_snapshot, whose result main ignores.
create_snapshot ==
    /\ Running("snapshot")
    /\ \E answer \in Answers, ok \in BOOLEAN :
         IF SnapshotConfirmed(answer)
         THEN /\ Issue(SnapshotCall, 0)
              /\ snapshots' = IF ok THEN snapshots + 1 ELSE snapshots
         ELSE UNCHANGED <<writes, snapshots>>
    /\ pc' = StepAfter("snapshot")
    /\ UNCHANGED <<resKind, engine, engineVersion, backupRetention, bgStatus,
                   bgSnapshots, bgTarget, oldExists, memberState, wait, runs,
                   target_version, instance_type, lookups, current_version,
                   upgrade_needed, bg_identifier, switchover_status, blocked,
                   database_name, instances, next_instance, exitCode, outcome, resume_status,
                   observed, waited>>
    /\ UNCHANGED aux

\* ---------------------------------------------- initiate_blue_green_upgrade
\* The describe calls at its top; a failure returns False.
InitiateDescribe ==
    /\ Running("bg_describe")
    /\ \E ok \in BOOLEAN :
         pc' = IF ~ok THEN "switchover"
               ELSE IF backupRetention < MinBackupRetention THEN "bg_modify"
               ELSE StepAfter("bg_describe")
    /\ UNCHANGED <<provider, wait, runs, target_version, instance_type, lookups,
                   current_version, upgrade_needed, bg_identifier,
                   switchover_status, blocked, database_name, instances, next_instance,
                   exitCode, outcome, writes, resume_status, observed, waited>>
    /\ UNCHANGED aux

ModifyCall == IF instance_type = "RDS" THEN "modify_db_instance"
              ELSE "modify_db_cluster"

\* BackupRetentionPeriod=1 followed by the waiter; either may fail, and a
\* failure returns False.  The call is made on the database itself (argument
\* -1), where the one of the deletion path is made on "<name>-old1"
\* (argument 0).
InitiateModifyRetention ==
    /\ Running("bg_modify")
    /\ Issue(ModifyCall, -1)
    /\ \E ok, waiterOk \in BOOLEAN :
         /\ backupRetention' = IF ok THEN MinBackupRetention ELSE backupRetention
         /\ pc' = IF ok /\ waiterOk THEN StepAfter("bg_describe")
                  ELSE "switchover"
    /\ UNCHANGED <<resKind, engine, engineVersion, snapshots, bgSnapshots, bgStatus,
                   bgTarget, oldExists, memberState, wait, runs,
                   target_version, instance_type, lookups, current_version,
                   upgrade_needed, bg_identifier, switchover_status, blocked,
                   database_name, instances, next_instance, exitCode, outcome, resume_status,
                   observed, waited>>
    /\ UNCHANGED aux

\* create_blue_green_deployment; the provider refuses a second deployment
\* of the same source.  main ignores the result.
InitiateCreate ==
    /\ Running("bg_create")
    /\ Issue("create_blue_green_deployment", 0)
    /\ \E ok \in BOOLEAN :
         IF ok /\ bgStatus = "NONE"
         THEN /\ bgStatus' = "PROVISIONING"
              /\ bgTarget' = target_version
              /\ bgSnapshots' = snapshots
         ELSE UNCHANGED <<bgStatus, bgTarget, bgSnapshots>>
    /\ pc' = "switchover"
    /\ UNCHANGED <<resKind, engine, engineVersion, backupRetention, snapshots,
                   oldExists, memberState, wait, runs, target_version,
                   instance_type, lookups, current_version, upgrade_needed,
                   bg_identifier, switchover_status, blocked, database_name,
                   instances, next_instance, exitCode, outcome, resume_status, observed, waited>>
    /\ UNCHANGED aux

\* ------------------------------------------ switchover_blue_green_deployment
\* if switchover_status == 'AVAILABLE': the call; 'SWITCHOVER_IN_PROGRESS' is
\* reported when it does not raise, False otherwise.
\* Variant: a deployment still being provisioned is switched over too.
SwitchoverDue_Early == switchover_status \in {"AVAILABLE", "PROVISIONING"}

\* if switchover_status == 'AVAILABLE'
SwitchoverDue == switchover_status = "AVAILABLE"

Switchover ==
    /\ Running("switchover")
    /\ IF SwitchoverDue
       THEN /\ Issue("switchover_blue_green_deployment", 0)
            /\ \E ok \in BOOLEAN :
                 IF ok /\ bgStatus = "AVAILABLE"
                 THEN /\ bgStatus' = "SWITCHOVER_IN_PROGRESS"
                      /\ switchover_status' = "SWITCHOVER_IN_PROGRESS"
                 ELSE /\ switchover_status' = "False"
                      /\ UNCHANGED bgStatus
       ELSE UNCHANGED <<writes, bgStatus, switchover_status>>
    /\ pc' = "wait"
    /\ UNCHANGED <<resKind, engine, engineVersion, backupRetention, snapshots, bgSnapshots,
                   bgTarget, oldExists, memberState, wait, runs,
                   target_version, instance_type, lookups, current_version,
                   upgrade_needed, bg_identifier, blocked, database_name,
                   instances, next_instance, exitCode, outcome, resume_status, observed, waited>>
    /\ UNCHANGED aux

\* ---------------------------------------------------- wait_for_bg_switchover
\* if switchover_status == 'SWITCHOVER_IN_PROGRESS': main calls the poll loop
\* with its default timeout and interval; starttime is taken on entry.
\* Variant: everything short of completion is waited for.
WaitDue_NotCompleted == switchover_status /= "SWITCHOVER_COMPLETED"

\* if switchover_status == 'SWITCHOVER_IN_PROGRESS'
WaitDue == switchover_status = "SWITCHOVER_IN_PROGRESS"

WaitEnter ==
    /\ Running("wait")
    /\ IF WaitDue
       THEN /\ pc' = "wait_loop"
            /\ timeout' = DefaultTimeout
            /\ interval' = DefaultInterval
            /\ elapsed' = 0
            /\ wait_status' = "UNBOUND"
            /\ checks' = 0
            /\ waitResult' = "running"
            /\ waited' = TRUE
       ELSE /\ pc' = "delete"
            /\ UNCHANGED <<wait, waited>>
    /\ UNCHANGED <<provider, runs, target_version, instance_type, lookups,
                   current_version, upgrade_needed, bg_identifier,
                   switchover_status, blocked, database_name, instances, next_instance,
                   exitCode, outcome, writes, resume_status,
                   observed>>
    /\ UNCHANGED aux

\* while time.monotonic() - starttime < timeout
LoopContinues == elapsed < timeout

\* Variant: a terminal failure status ends the loop as well.
EarlyReturn_Terminal(s) == s \in {"SWITCHOVER_COMPLETED", "SWITCHOVER_FAILED"}

\* if switchover_status == 'SWITCHOVER_COMPLETED': return switchover_status
EarlyReturn(s) == s = "SWITCHOVER_COMPLETED"

\* One iteration of the loop: a status check, then either the early return
\* or the sleep.
WaitIteration ==
    /\ pc = "wait_loop" /\ waitResult = "running"
    /\ LoopContinues
    /\ \E s \in StatusReads :
         /\ wait_status' = s
         /\ observed' = observed \cup {s}
         /\ checks' = checks + 1
         /\ IF EarlyReturn(s)
            THEN /\ waitResult' = "returned"
                 /\ UNCHANGED elapsed
            ELSE /\ elapsed' = elapsed + interval
                 /\ UNCHANGED waitResult
    /\ UNCHANGED <<provider, timeout, interval, runs, pc, target_version,
                   instance_type, lookups, current_version, upgrade_needed,
                   bg_identifier, switchover_status, blocked, database_name,
                   instances, next_instance, exitCode, outcome, writes, resume_status,
                   waited>>
    /\ UNCHANGED aux

\* The loop condition is false: return switchover_status, which is unbound
\* when the body never ran.
WaitTimeout ==
    /\ pc = "wait_loop" /\ waitResult = "running"
    /\ ~LoopContinues
    /\ waitResult' = IF wait_status = "UNBOUND" THEN "raised" ELSE "returned"
    /\ UNCHANGED <<provider, timeout, interval, elapsed, wait_status, checks,
                   run>>
    /\ UNCHANGED aux

\* switchover_status = wait_for_bg_switchover(..) in main; the exception of
\* an unbound local is not caught.  The locals of the call are gone.
WaitReturn ==
    /\ pc = "wait_loop" /\ waitResult \in {"returned", "raised"}
    /\ exitCode = NoExit
    /\ IF waitResult = "returned"
       THEN /\ switchover_status' = wait_status
            /\ pc' = "delete"
            /\ UNCHANGED <<exitCode, outcome>>
       ELSE /\ Exit(ExitFail, "crash")
            /\ UNCHANGED switchover_status
    /\ waitResult' = "idle"
    /\ elapsed' = 0
    /\ wait_status' = "UNBOUND"
    /\ checks' = 0
    /\ UNCHANGED <<provider, timeout, interval, runs, target_version, instance_type, lookups, current_version,
                   upgrade_needed, bg_identifier, blocked, database_name,
                   instances, next_instance, writes, resume_status, observed, waited>>
    /\ UNCHANGED aux

\* ------------------------------------------------------------ cleanup stage
\* main returning normally ends the process with status 0.
Finish == Exit(ExitOk, "finished")

\* Variant: a resume path, the cleanup also starts when no deployment was
\* found.
DeletionDue_Resume ==
    switchover_status = "SWITCHOVER_COMPLETED" \/ bg_identifier = "None"

\* Variant: any truthy status starts the cleanup.
DeletionDue_Truthy == switchover_status \notin {"None", "False"}

\* if switchover_status == 'SWITCHOVER_COMPLETED'
DeletionDue == switchover_status = "SWITCHOVER_COMPLETED"

\* delete_blue_green_deployment: the name of the superseded resource is
\* taken from the Source of the response; None when the call fails.
delete_blue_green_deployment ==
    /\ Running("delete")
    /\ IF DeletionDue
       THEN /\ Issue("delete_blue_green_deployment", 0)
            /\ \E ok \in BOOLEAN :
                 IF ok /\ bgStatus /= "NONE"
                 THEN /\ bgStatus' = "NONE"
                      /\ database_name' = "old"
                 ELSE /\ database_name' = "None"
                      /\ UNCHANGED bgStatus
            /\ pc' = "del_modify"
            /\ UNCHANGED <<exitCode, outcome>>
       ELSE /\ Finish
            /\ UNCHANGED <<writes, bgStatus, database_name>>
    /\ UNCHANGED <<resKind, engine, engineVersion, backupRetention, snapshots, bgSnapshots,
                   bgTarget, oldExists, memberState, wait, runs,
                   target_version, instance_type, lookups, current_version,
                   upgrade_needed, bg_identifier, switchover_status, blocked,
                   instances, next_instance, resume_status, observed, waited>>
    /\ UNCHANGED aux

\* if database_name is not None
ResourceDeletionDue == database_name /= "None"

\* delete_database_instance_or_cluster, first call: DeletionProtection=False.
\* Any failing call in this function returns False, which main ignores.
DeleteModifyProtection ==
    /\ Running("del_modify")
    /\ IF ResourceDeletionDue
       THEN /\ Issue(ModifyCall, 0)
            /\ \E ok \in BOOLEAN :
                 IF ok /\ oldExists
                 THEN /\ pc' = IF instance_type = "RDS" THEN "del_instance"
                              ELSE "del_list"
                      /\ UNCHANGED <<exitCode, outcome>>
                 ELSE Finish
       ELSE /\ Finish
            /\ UNCHANGED writes
    /\ UNCHANGED <<provider, wait, runs, target_version, instance_type, lookups,
                   current_version, upgrade_needed, bg_identifier,
                   switchover_status, blocked, database_name, instances, next_instance,
                   resume_status, observed, waited>>
    /\ UNCHANGED aux

\* RDS branch: delete_db_instance of the superseded instance.
DeleteInstance ==
    /\ Running("del_instance")
    /\ Issue("delete_db_instance", 0)
    /\ \E ok \in BOOLEAN : oldExists' = IF ok THEN FALSE ELSE oldExists
    /\ Finish
    /\ UNCHANGED <<resKind, engine, engineVersion, backupRetention, snapshots, bgSnapshots,
                   bgStatus, bgTarget, memberState, wait, runs,
                   target_version, instance_type, lookups, current_version,
                   upgrade_needed, bg_identifier, switchover_status, blocked,
                   database_name, instances, next_instance, resume_status, observed, waited>>
    /\ UNCHANGED aux

\* The members the provider lists for the cluster, in listing order.
RECURSIVE MemberList(_)
MemberList(from) ==
    IF from > MaxMembers THEN <<>>
    ELSE IF memberState[from] /= "gone" THEN <<from>> \o MemberList(from + 1)
    ELSE MemberList(from + 1)

\* Aurora branch: describe_db_instances filtered by db-cluster-id.
DeleteListMembers ==
    /\ Running("del_list")
    /\ \E ok \in BOOLEAN :
         IF ok
         THEN /\ instances' = MemberList(1)
              /\ next_instance' = 1
              /\ pc' = "del_members"
              /\ UNCHANGED <<exitCode, outcome>>
         ELSE /\ Finish
              /\ UNCHANGED <<instances, next_instance>>
    /\ UNCHANGED <<provider, wait, runs, target_version, instance_type, lookups,
                   current_version, upgrade_needed, bg_identifier,
                   switchover_status, blocked, database_name, writes,
                   resume_status, observed, waited>>
    /\ UNCHANGED aux

\* Variant: the loop stops one member early.
MembersRemaining_Short == next_instance < Len(instances)

\* for instance in instances: members are left to delete
MembersRemaining == next_instance <= Len(instances)

\* One iteration of "for instance in instances": delete_db_instance.  The
\* provider starts deleting the member; the code does not wait for it.
DeleteMember ==
    /\ Running("del_members")
    /\ MembersRemaining
    /\ Issue("delete_db_instance", instances[next_instance])
    /\ \E ok \in BOOLEAN :
         IF ok /\ memberState[instances[next_instance]] = "available"
         THEN /\ memberState' = [memberState EXCEPT
                                   ![instances[next_instance]] = "deleting"]
              /\ next_instance' = next_instance + 1
              /\ UNCHANGED <<pc, exitCode, outcome>>
         ELSE /\ Finish
              /\ UNCHANGED <<memberState, next_instance>>
    /\ UNCHANGED <<instances, resKind, engine, engineVersion, backupRetention, snapshots, bgSnapshots,
                   bgStatus, bgTarget, oldExists, wait, runs, target_version,
                   instance_type, lookups, current_version, upgrade_needed,
                   bg_identifier, switchover_status, blocked, database_name,
                   resume_status, observed, waited>>
    /\ UNCHANGED aux

\* After the loop: delete_db_cluster.  The provider rejects it while a
\* member instance exists.
DeleteCluster ==
    /\ Running("del_members")
    /\ ~MembersRemaining
    /\ Issue("delete_db_cluster", 0)
    /\ \E ok \in BOOLEAN :
         oldExists' = IF ok /\ \A m \in Members : memberState[m] = "gone"
                      THEN FALSE ELSE oldExists
    /\ Finish
    /\ UNCHANGED <<resKind, engine, engineVersion, backupRetention, snapshots, bgSnapshots,
                   bgStatus, bgTarget, memberState, wait, runs,
                   target_version, instance_type, lookups, current_version,
                   upgrade_needed, bg_identifier, switchover_status, blocked,
                   database_name, instances, next_instance, resume_status, observed, waited>>
    /\ UNCHANGED aux

\* ------------------------------------------------------------ the provider
\* Status enum as observed from the provider: PROVISIONING -> AVAILABLE.
ProviderProvisioned ==
    /\ bgStatus = "PROVISIONING"
    /\ bgStatus' = "AVAILABLE"
    /\ UNCHANGED <<resKind, engine, engineVersion, backupRetention, snapshots, bgSnapshots,
                   bgTarget, oldExists, memberState, run, wait>>
    /\ UNCHANGED aux

\* SWITCHOVER_IN_PROGRESS -> SWITCHOVER_COMPLETED: the identifier now names
\* the upgraded resource, of which no manual snapshot exists, and the former
\* one, with its members, is the superseded resource.
ProviderSwitchoverCompletes ==
    /\ bgStatus = "SWITCHOVER_IN_PROGRESS"
    /\ bgStatus' = "SWITCHOVER_COMPLETED"
    /\ engineVersion' = IF bgTarget = NoVersion THEN engineVersion ELSE bgTarget
    /\ oldExists' = TRUE
    /\ \E n \in 0..MaxMembers :
         /\ resKind /= "cluster" => n = 0
         /\ memberState' = [m \in Members |->
                              IF m <= n THEN "available" ELSE "gone"]
    /\ snapshots' = 0
    /\ UNCHANGED <<resKind, engine, backupRetention, bgSnapshots, bgTarget,
                   run, wait>>
    /\ UNCHANGED aux

\* SWITCHOVER_IN_PROGRESS -> SWITCHOVER_FAILED, a terminal failure status.
ProviderSwitchoverFails ==
    /\ bgStatus = "SWITCHOVER_IN_PROGRESS"
    /\ bgStatus' = "SWITCHOVER_FAILED"
    /\ UNCHANGED <<resKind, engine, engineVersion, backupRetention, snapshots, bgSnapshots,
                   bgTarget, oldExists, memberState, run, wait>>
    /\ UNCHANGED aux

\* A member whose deletion was requested disappears some time later.
ProviderMemberDeleted ==
    /\ \E m \in Members :
         /\ memberState[m] = "deleting"
         /\ memberState' = [memberState EXCEPT ![m] = "gone"]
    /\ UNCHANGED <<resKind, engine, engineVersion, backupRetention, snapshots, bgSnapshots,
                   bgStatus, bgTarget, oldExists, run, wait>>
    /\ UNCHANGED aux

\* ----------------------------------------------------------- specification
Next ==
    \/ StartRun
    \/ initialize_aws_clients
    \/ validate_rds_or_aurora
    \/ ValidateVersions
    \/ get_blue_green_deployment_identifier
    \/ Gate
    \/ CheckExistingDeployment
    \/ Preflight
    \/ create_snapshot
    \/ InitiateDescribe
    \/ InitiateModifyRetention
    \/ InitiateCreate
    \/ Switchover
    \/ WaitEnter
    \/ WaitIteration
    \/ WaitTimeout
    \/ WaitReturn
    \/ delete_blue_green_deployment
    \/ DeleteModifyProtection
    \/ DeleteInstance
    \/ DeleteListMembers
    \/ DeleteMember
    \/ DeleteCluster
    \/ ProviderProvisioned
    \/ ProviderSwitchoverCompletes
    \/ ProviderSwitchoverFails
    \/ ProviderMemberDeleted

Spec == Init /\ [][Next]_vars

\* ------------------------------------- the poll loop checked on its own
\* wait_for_bg_switchover called with any timeout and interval, against a
\* deployment in any status (or none).
InitWaitAlone ==
    /\ resKind = "instance"
    /\ engine = "postgres"
    /\ engineVersion = <<1>>
    /\ backupRetention = MinBackupRetention
    /\ snapshots = 0
    /\ bgSnapshots = 0
    /\ bgStatus \in Statuses \cup {"NONE"}
    /\ bgTarget = <<1, MaxMinor>>
    /\ oldExists = FALSE
    /\ memberState = [m \in Members |-> "gone"]
    /\ runs = 1
    /\ pc = "wait_loop"
    /\ target_version = <<1, MaxMinor>>
    /\ instance_type = "RDS"
    /\ current_version = <<1>>
    /\ upgrade_needed = TRUE
    /\ bg_identifier = "bg"
    /\ switchover_status = "SWITCHOVER_IN_PROGRESS"
    /\ blocked = "unset"
    /\ database_name = "None"
    /\ instances = <<>>
    /\ next_instance = 1
    /\ exitCode = NoExit
    /\ outcome = "none"
    /\ writes = <<>>
    /\ resume_status = "unset"
    /\ observed = {}
    /\ waited = FALSE
    /\ lookups = <<>>
    /\ timeout \in 0..MaxTimeout
    /\ interval \in 1..MaxInterval
    /\ elapsed = 0
    /\ wait_status = "UNBOUND"
    /\ checks = 0
    /\ waitResult = "running"
    /\ InitAux

NextWaitAlone ==
    \/ WaitIteration
    \/ WaitTimeout
    \/ ProviderProvisioned
    \/ ProviderSwitchoverCompletes
    \/ ProviderSwitchoverFails

SpecWait == InitWaitAlone /\ [][NextWaitAlone]_vars

\* --------------------------------- the confirmation prompt checked on its own
\* create_snapshot from its call of timeout_input on: the foreground thread
\* starts a daemon thread that reads the answer, joins it for the length of
\* the confirmation window, tests whether it is still alive, and acts on what
\* timeout_input returned.  The operator answers at any moment or never.
TypedAnswers == {"yes", "YES", "no"}

\* input_thread.start(); input_thread.join(timeout) begins.
TimeoutInputStart ==
    /\ fg = "start"
    /\ reader' = "reading"
    /\ fg' = "joining"
    /\ UNCHANGED <<user_input, windowElapsed, confirm_snapshot, readAt>>
    /\ UNCHANGED <<provider, run, wait, older, pgroups, extra>>

\* get_input: input(prompt) returns what was typed and the thread ends; when
\* input raises, the thread logs and ends with user_input[0] still None.
ReaderFinishes ==
    /\ reader = "reading"
    /\ \E raised \in BOOLEAN, a \in TypedAnswers :
         user_input' = IF raised THEN "None" ELSE a
    /\ reader' = "finished"
    /\ readAt' = IF fg = "joining" /\ ~windowElapsed THEN "in_window"
                 ELSE IF fg \in {"joining", "check_alive"} THEN "late"
                 ELSE "after_check"
    /\ UNCHANGED <<fg, windowElapsed, confirm_snapshot>>
    /\ UNCHANGED <<provider, run, wait, older, pgroups, extra>>

\* The confirmation window runs out while the reader is still reading.
WindowElapses ==
    /\ fg = "joining"
    /\ reader = "reading"
    /\ ~windowElapsed
    /\ windowElapsed' = TRUE
    /\ UNCHANGED <<fg, reader, user_input, confirm_snapshot, readAt>>
    /\ UNCHANGED <<provider, run, wait, older, pgroups, extra>>

\* join(timeout) returns: the thread has ended or the window has run out.
JoinReturns ==
    /\ fg = "joining"
    /\ reader = "finished" \/ windowElapsed
    /\ fg' = "check_alive"
    /\ UNCHANGED <<reader, user_input, windowElapsed, confirm_snapshot, readAt>>
    /\ UNCHANGED <<provider, run, wait, older, pgroups, extra>>

\* Variant: the liveness test is dropped and user_input[0] always returned.
is_alive_Never == FALSE

\* input_thread.is_alive()
is_alive == reader = "reading"

\* if input_thread.is_alive(): return 'no'  else: return user_input[0]
TimeoutInputReturns ==
    /\ fg = "check_alive"
    /\ confirm_snapshot' = IF is_alive THEN "no" ELSE user_input
    /\ fg' = "returned"
    /\ UNCHANGED <<reader, user_input, windowElapsed, readAt>>
    /\ UNCHANGED <<provider, run, wait, older, pgroups, extra>>

\* The rest of create_snapshot, acting on confirm_snapshot.
SnapshotAfterPrompt ==
    /\ fg = "returned"
    /\ Running("snapshot")
    /\ \E ok \in BOOLEAN :
         IF SnapshotConfirmed(confirm_snapshot)
         THEN /\ Issue(SnapshotCall, 0)
              /\ snapshots' = IF ok THEN snapshots + 1 ELSE snapshots
         ELSE UNCHANGED <<writes, snapshots>>
    /\ pc' = StepAfter("snapshot")
    /\ fg' = "done"
    /\ UNCHANGED <<reader, user_input, windowElapsed, confirm_snapshot, readAt>>
    /\ UNCHANGED <<resKind, engine, engineVersion, backupRetention, bgStatus,
                   bgSnapshots, bgTarget, oldExists, memberState, wait, runs,
                   target_version, instance_type, lookups, current_version,
                   upgrade_needed, bg_identifier, switchover_status, blocked,
                   database_name, instances, next_instance, exitCode, outcome,
                   resume_status, observed, waited, older, pgroups, extra>>

\* A run that has reached create_snapshot for an accepted resource.
InitInputAlone ==
    /\ resKind \in {"cluster", "instance"}
    /\ engine = (IF resKind = "cluster" THEN "aurora-postgresql" ELSE "postgres")
    /\ engineVersion = <<1>>
    /\ backupRetention \in 0..MinBackupRetention
    /\ snapshots = 0
    /\ bgSnapshots = 0
    /\ bgStatus = "NONE"
    /\ bgTarget = NoVersion
    /\ oldExists = FALSE
    /\ memberState = [m \in Members |-> "gone"]
    /\ runs = 1
    /\ pc = "snapshot"
    /\ target_version = <<1, MaxMinor>>
    /\ instance_type = (IF resKind = "cluster" THEN "Aurora" ELSE "RDS")
    /\ current_version = <<1>>
    /\ upgrade_needed = TRUE
    /\ bg_identifier = "None"
    /\ switchover_status = "None"
    /\ blocked = "no"
    /\ database_name = "None"
    /\ instances = <<>>
    /\ next_instance = 1
    /\ exitCode = NoExit
    /\ outcome = "none"
    /\ writes = <<>>
    /\ resume_status = "unset"
    /\ observed = {}
    /\ waited = FALSE
    /\ lookups = <<>>
    /\ InitWait
    /\ fg = "start"
    /\ reader = "unstarted"
    /\ user_input = "None"
    /\ windowElapsed = FALSE
    /\ confirm_snapshot = "unset"
    /\ readAt = "never"
    /\ InitOlder
    /\ InitPGroups
    /\ InitExtra

NextInputAlone ==
    \/ TimeoutInputStart
    \/ ReaderFinishes
    \/ WindowElapses
    \/ JoinReturns
    \/ TimeoutInputReturns
    \/ SnapshotAfterPrompt

SpecInput == InitInputAlone /\ [][NextInputAlone]_vars

\* ------------------------------------------------------------ get_older_rds
\* A version string is held as the sequence of its dot-separated parts, as
\* version.split('.') yields them.  A part is a decimal numeral, a word
\* (isdigit() is False), or a digit character that int() does not accept
\* (isdigit() is True and int() raises ValueError, as for a superscript two).
NumericParts == {"0", "1", "8", "10", "15"}
WordParts == {"abc"}
OddDigitParts == {"superscript-2"}
Parts == NumericParts \cup WordParts \cup OddDigitParts

VersionStrings == UNION {[1..n -> Parts] : n \in 1..MaxParts}

\* part.isdigit()
isdigit(part) == part \in NumericParts \cup OddDigitParts

\* int(part) for the numerals
IntOf(part) ==
    CASE part = "0" -> 0
      [] part = "1" -> 1
      [] part = "8" -> 8
      [] part = "10" -> 10
      [] part = "15" -> 15

\* float('inf') compares greater than every int
Inf == 1000000

\* tuple(int(part) for part in version.split('.') if part.isdigit()),
\* (float('inf'),) when int raises.
parse_engine_version(version) ==
    LET digits == SelectSeq(version, isdigit)
    IN  IF \E i \in 1..Len(digits) : digits[i] \in OddDigitParts
        THEN <<Inf>>
        ELSE [i \in 1..Len(digits) |-> IntOf(digits[i])]

Max(a, b) == IF a >= b THEN a ELSE b

\* version += (0,) * (max_length - len(version))
PadZeros(v, max_length) == v \o [i \in 1..(max_length - Len(v)) |-> 0]

\* Variant: the tuples are compared without the padding.
version_less_than_Unpadded(v1, v2) == TupleLess(v1, v2)

version_less_than(v1, v2) ==
    LET max_length == Max(Len(v1), Len(v2))
    IN  TupleLess(PadZeros(v1, max_length), PadZeros(v2, max_length))

\* list.sort(key=..) of a two-element list: stable, tuples compared as
\* Python compares them.
SortPair(a, b) ==
    IF TupleLess(parse_engine_version(b), parse_engine_version(a))
    THEN <<b, a>> ELSE <<a, b>>

\* engine_version = parse_engine_version(..); version_less_than(engine_version,
\* max_engine_version_tuple)
CompareVersions ==
    /\ vpc = "start"
    /\ less' = version_less_than(parse_engine_version(version1),
                                 parse_engine_version(version2))
    /\ vpc' = "compared"
    /\ UNCHANGED <<version1, version2, rds_instances>>
    /\ UNCHANGED <<provider, run, wait, input, pgroups, extra>>

\* rds_instances.sort(key=lambda x: parse_engine_version(x['EngineVersion']))
SortVersions ==
    /\ vpc = "compared"
    /\ rds_instances' = SortPair(version1, version2)
    /\ vpc' = "sorted"
    /\ UNCHANGED <<version1, version2, less>>
    /\ UNCHANGED <<provider, run, wait, input, pgroups, extra>>

InitOlderAlone ==
    /\ InitProvider
    /\ resKind = "none"
    /\ engineVersion = <<1>>
    /\ backupRetention = MinBackupRetention
    /\ InitRun
    /\ InitWait
    /\ InitInput
    /\ InitPGroups
    /\ InitExtra
    /\ vpc = "start"
    /\ version1 \in VersionStrings
    /\ version2 \in VersionStrings
    /\ less = FALSE
    /\ rds_instances = <<>>

NextOlderAlone == CompareVersions \/ SortVersions

SpecOlder == InitOlderAlone /\ [][NextOlderAlone]_vars

\* ---------------------------------------------------- major_pg_upgrade_tool
\* handle_parameter_groups_upgrade for an accepted resource.  Versions are
\* held as the parts of version.split('.'); a parameter is a record with its
\* name, value and Source; a group is the sequence of pages the paginator
\* yields for it.
PGVersions == {<<a, b>> : a \in {"8", "10", "15"}, b \in {"1", "8"}}
Sources == {"user", "engine-default", "system"}
Param(name, value, source) ==
    [ParameterName |-> name, ParameterValue |-> value, Source |-> source]
GroupListings ==
    {<<Param("max_connections", "500", s1), Param("work_mem", "64MB", s2)>> :
        s1 \in Sources, s2 \in Sources}
GroupPages ==
    {<<l>> : l \in GroupListings}
    \cup {<< <<l[1]>>, <<l[2]>> >> : l \in GroupListings}

\* Every step of the handler leaves the rest of the program alone.
RunButWrites == <<runs, pc, target_version, instance_type, lookups,
                  current_version, upgrade_needed, bg_identifier,
                  switchover_status, blocked, database_name, instances,
                  next_instance, exitCode, outcome, resume_status, observed,
                  waited>>
PGFrame == UNCHANGED <<provider, RunButWrites, wait, input, older, extra,
                       oldClusterPages, oldInstancePages>>

\* get_parameter_groups: the names of the old groups, (None, None) when a
\* describe call fails or the cluster lists no instance; for an instance
\* that is no longer listed the function falls off its end and the
\* unpacking in the caller raises.
get_parameter_groups ==
    /\ pg_pc = "start"
    /\ \E r \in {"ok", "error", "unlisted"} :
         IF r = "ok"
         THEN /\ cluster_pg' = IF instance_type = "Aurora"
                               THEN "old-cluster-pg" ELSE "None"
              /\ instance_pg' = "old-instance-pg"
              /\ pg_pc' = "decide"
         ELSE IF r = "error" \/ instance_type = "Aurora"
         THEN /\ cluster_pg' = "None"
              /\ instance_pg' = "None"
              /\ pg_pc' = "decide"
         ELSE /\ pg_pc' = "raised_unpacking"
              /\ UNCHANGED <<cluster_pg, instance_pg>>
    /\ UNCHANGED <<writes, new_param_group_name, user_params>>
    /\ PGFrame

\* int(version.split('.')[0])
MajorOf(version) == IntOf(version[1])

\* Variant: any newer version counts as a major upgrade.
is_major_upgrade_AnyNewer(current, target) ==
    version_less_than(parse_engine_version(current),
                      parse_engine_version(target))

\* is_major_upgrade = int(target_version.split('.')[0])
\*                      > int(current_version.split('.')[0])
is_major_upgrade(current, target) == MajorOf(target) > MajorOf(current)

\* pgfamily = f"aurora-postgresql{family}" / f"postgres{family}"
pgfamily ==
    <<IF instance_type = "Aurora" THEN "aurora-postgresql" ELSE "postgres",
      MajorOf(target_version)>>

\* if is_major_upgrade: .. if instance_type == 'Aurora': .. elif 'RDS': ..
\* else: the minor upgrade is only reported.
DecideUpgradeKind ==
    /\ pg_pc = "decide"
    /\ pg_pc' = IF ~is_major_upgrade(current_version, target_version)
                THEN "returned"
                ELSE IF instance_type = "Aurora" THEN "create_cluster"
                ELSE "create_instance"
    /\ UNCHANGED <<writes, cluster_pg, instance_pg, new_param_group_name,
                   user_params>>
    /\ PGFrame

create_cluster_parameter_group ==
    /\ pg_pc = "create_cluster"
    /\ Issue("create_db_cluster_parameter_group",
             [group |-> "new-cluster-pg", family |-> pgfamily])
    /\ \E ok \in BOOLEAN :
         IF ok
         THEN /\ new_param_group_name' = "new-cluster-pg"
              /\ pg_pc' = "get_cluster"
         ELSE /\ pg_pc' = "raised"
              /\ UNCHANGED new_param_group_name
    /\ UNCHANGED <<cluster_pg, instance_pg, user_params>>
    /\ PGFrame

\* for page in paginator.paginate(..): for param in page['Parameters']
RECURSIVE AllPages(_)
AllPages(pages) ==
    IF pages = <<>> THEN <<>> ELSE Head(pages) \o AllPages(Tail(pages))

PagesRead(pages) == AllPages(pages)

\* Variant: everything that is not an engine default is copied.
IsUserParam_NotDefault(param) == param.Source /= "engine-default"

\* if param.get('Source') == 'user'
IsUserParam(param) == param.Source = "user"

UserDefined(pages) == SelectSeq(PagesRead(pages), IsUserParam)

\* formatted_params
Formatted(parameters) ==
    [i \in 1..Len(parameters) |->
        [ParameterName |-> parameters[i].ParameterName,
         ParameterValue |-> parameters[i].ParameterValue,
         ApplyMethod |-> "pending-reboot"]]

\* get_user_defined_cluster_parameters: a describe of the group None is
\* refused, as is a failing describe; both raise.
get_user_defined_cluster_parameters ==
    /\ pg_pc = "get_cluster"
    /\ \E ok \in BOOLEAN :
         IF ok /\ cluster_pg /= "None"
         THEN /\ user_params' = UserDefined(oldClusterPages)
              /\ pg_pc' = "apply_cluster"
         ELSE /\ pg_pc' = "raised"
              /\ UNCHANGED user_params
    /\ UNCHANGED <<writes, cluster_pg, instance_pg, new_param_group_name>>
    /\ PGFrame

\* apply_cluster_parameters, then "if instance_pg:".
apply_cluster_parameters ==
    /\ pg_pc = "apply_cluster"
    /\ \E ok \in BOOLEAN :
         IF Formatted(user_params) /= <<>>
         THEN /\ Issue("modify_db_cluster_parameter_group",
                       [group |-> new_param_group_name,
                        Parameters |-> Formatted(user_params)])
              /\ pg_pc' = IF ~ok THEN "raised"
                          ELSE IF instance_pg /= "None" THEN "create_instance"
                          ELSE "returned"
         ELSE /\ UNCHANGED writes
              /\ pg_pc' = IF instance_pg /= "None" THEN "create_instance"
                          ELSE "returned"
    /\ UNCHANGED <<cluster_pg, instance_pg, new_param_group_name, user_params>>
    /\ PGFrame

create_instance_parameter_group ==
    /\ pg_pc = "create_instance"
    /\ Issue("create_db_parameter_group",
             [group |-> "new-instance-pg", family |-> pgfamily])
    /\ \E ok \in BOOLEAN :
         IF ok
         THEN /\ new_param_group_name' = "new-instance-pg"
              /\ pg_pc' = "get_instance"
         ELSE /\ pg_pc' = "raised"
              /\ UNCHANGED new_param_group_name
    /\ UNCHANGED <<cluster_pg, instance_pg, user_params>>
    /\ PGFrame

get_user_defined_instance_parameters ==
    /\ pg_pc = "get_instance"
    /\ \E ok \in BOOLEAN :
         IF ok /\ instance_pg /= "None"
         THEN /\ user_params' = UserDefined(oldInstancePages)
              /\ pg_pc' = "apply_instance"
         ELSE /\ pg_pc' = "raised"
              /\ UNCHANGED user_params
    /\ UNCHANGED <<writes, cluster_pg, instance_pg, new_param_group_name>>
    /\ PGFrame

apply_instance_parameters ==
    /\ pg_pc = "apply_instance"
    /\ \E ok \in BOOLEAN :
         IF Formatted(user_params) /= <<>>
         THEN /\ Issue("modify_db_parameter_group",
                       [group |-> new_param_group_name,
                        Parameters |-> Formatted(user_params)])
              /\ pg_pc' = IF ok THEN "returned" ELSE "raised"
         ELSE /\ UNCHANGED writes
              /\ pg_pc' = "returned"
    /\ UNCHANGED <<cluster_pg, instance_pg, new_param_group_name, user_params>>
    /\ PGFrame

\* The script has validated the resource and calls the handler.
InitPGAlone ==
    /\ resKind \in {"cluster", "instance"}
    /\ engine = (IF resKind = "cluster" THEN "aurora-postgresql" ELSE "postgres")
    /\ engineVersion = <<1>>
    /\ backupRetention = MinBackupRetention
    /\ snapshots = 0
    /\ bgSnapshots = 0
    /\ bgStatus = "NONE"
    /\ bgTarget = NoVersion
    /\ oldExists = FALSE
    /\ memberState = [m \in Members |-> "gone"]
    /\ runs = 1
    /\ pc = "idle"
    /\ target_version \in PGVersions
    /\ instance_type = (IF resKind = "cluster" THEN "Aurora" ELSE "RDS")
    /\ lookups = <<>>
    /\ current_version \in PGVersions
    /\ upgrade_needed = FALSE
    /\ bg_identifier = "None"
    /\ switchover_status = "None"
    /\ blocked = "unset"
    /\ database_name = "None"
    /\ instances = <<>>
    /\ next_instance = 1
    /\ exitCode = NoExit
    /\ outcome = "none"
    /\ writes = <<>>
    /\ resume_status = "unset"
    /\ observed = {}
    /\ waited = FALSE
    /\ InitWait
    /\ InitInput
    /\ InitOlder
    /\ InitExtra
    /\ pg_pc = "start"
    /\ oldClusterPages \in (IF resKind = "cluster" THEN GroupPages ELSE {<<>>})
    /\ oldInstancePages \in GroupPages
    /\ cluster_pg = "None"
    /\ instance_pg = "None"
    /\ new_param_group_name = "None"
    /\ user_params = <<>>

NextPGAlone ==
    \/ get_parameter_groups
    \/ DecideUpgradeKind
    \/ create_cluster_parameter_group
    \/ get_user_defined_cluster_parameters
    \/ apply_cluster_parameters
    \/ create_instance_parameter_group
    \/ get_user_defined_instance_parameters
    \/ apply_instance_parameters

SpecPG == InitPGAlone /\ [][NextPGAlone]_vars

\* ------------------------- check_pg_slots_and_extensions checked on its own
\* main's else-branch with fetch_and_check taken step by step: the secret is
\* fetched, its fields are tested, the two database checks connect and
\* query, and main acts on what comes back.
FieldValues == {"missing", "empty", "set"}
SlotStates == {"absent", "inactive", "active"}

\* Variant: pgaudit is not flagged.
flagged_extensions_Four == {"pg_partman", "pg_cron", "pglogical", "pgactive"}

\* the keys of flagged_extensions
flagged_extensions == {"pg_partman", "pg_cron", "pglogical", "pgactive",
                       "pgaudit"}

\* What may be installed: the flagged extensions and others.
ExtensionNames == {"pg_partman", "pg_cron", "pglogical", "pgactive",
                   "pgaudit"} \cup OtherExtensions

\* Python truthiness of rds_secret.get(..): None and "" are falsy.
Truthy(field) == field = "set"

\* Variant: one of the two fields is enough.
HasCredentials_Either(host, password) == Truthy(host) \/ Truthy(password)

\* if host and password
HasCredentials(host, password) == Truthy(host) /\ Truthy(password)

\* SELECT slot_name, active FROM pg_replication_slots WHERE active = true
active_slots == {n \in SlotNames : pg_replication_slots[n] = "active"}

\* for extension in installed_extensions: if extension in flagged_extensions
FlaggedInstalled == \E extension \in installed : extension \in flagged_extensions

Bool(b) == IF b THEN "True" ELSE "False"

PreflightFrame == UNCHANGED <<provider, run, wait, input, older, pgroups,
                              clients, initiate, naming, account, alarms,
                              secret_host, secret_password,
                              pg_replication_slots, installed>>

\* main evaluates "not fetch_and_check(identifier)".
FetchAndCheckCalled ==
    /\ Running("branch")
    /\ bg_identifier = "None"
    /\ NeedsPreflight
    /\ pf_pc = "idle"
    /\ pf_pc' = "get_secret"
    /\ UNCHANGED <<replication_slots_flag, extensions_flag, pf_calls, pf_error,
                   pf_result>>
    /\ PreflightFrame

\* get_secret: whatever fails inside is raised as RuntimeError, which
\* fetch_and_check raises on as RuntimeError.
get_secret ==
    /\ pf_pc = "get_secret"
    /\ pf_calls' = Append(pf_calls, "get_secret")
    /\ \E ok \in BOOLEAN :
         IF ok
         THEN /\ pf_pc' = "fields"
              /\ UNCHANGED <<pf_error, pf_result>>
         ELSE /\ pf_pc' = "raised"
              /\ pf_error' = "get_secret"
              /\ pf_result' = "RuntimeError"
    /\ UNCHANGED <<replication_slots_flag, extensions_flag>>
    /\ PreflightFrame

\* if host and password: .. else: raise ValueError
CheckSecretFields ==
    /\ pf_pc = "fields"
    /\ IF HasCredentials(secret_host, secret_password)
       THEN /\ pf_pc' = "slots"
            /\ UNCHANGED <<pf_error, pf_result>>
       ELSE /\ pf_pc' = "raised"
            /\ pf_error' = "missing_field"
            /\ pf_result' = "RuntimeError"
    /\ UNCHANGED <<replication_slots_flag, extensions_flag, pf_calls>>
    /\ PreflightFrame

\* check_active_replication_slots: connect, query, True when a row came
\* back; a psycopg2 error is raised as RuntimeError.
check_active_replication_slots ==
    /\ pf_pc = "slots"
    /\ pf_calls' = Append(pf_calls, "check_active_replication_slots")
    /\ \E ok \in BOOLEAN :
         IF ok
         THEN /\ replication_slots_flag' = Bool(active_slots /= {})
              /\ pf_pc' = "extensions"
              /\ UNCHANGED <<pf_error, pf_result>>
         ELSE /\ pf_pc' = "raised"
              /\ pf_error' = "check_active_replication_slots"
              /\ pf_result' = "RuntimeError"
              /\ UNCHANGED replication_slots_flag
    /\ UNCHANGED extensions_flag
    /\ PreflightFrame

\* check_extensions: connect, query, True at the first installed extension
\* that is flagged; a psycopg2 error is raised as RuntimeError.
check_extensions ==
    /\ pf_pc = "extensions"
    /\ pf_calls' = Append(pf_calls, "check_extensions")
    /\ \E ok \in BOOLEAN :
         IF ok
         THEN /\ extensions_flag' = Bool(FlaggedInstalled)
              /\ pf_pc' = "return"
              /\ UNCHANGED <<pf_error, pf_result>>
         ELSE /\ pf_pc' = "raised"
              /\ pf_error' = "check_extensions"
              /\ pf_result' = "RuntimeError"
              /\ UNCHANGED extensions_flag
    /\ UNCHANGED replication_slots_flag
    /\ PreflightFrame

\* return replication_slots_flag or extensions_flag
FetchAndCheckReturns ==
    /\ pf_pc = "return"
    /\ pf_result' = Bool(fetch_and_check(replication_slots_flag = "True",
                                         extensions_flag = "True"))
    /\ pf_pc' = "returned"
    /\ UNCHANGED <<replication_slots_flag, extensions_flag, pf_calls, pf_error>>
    /\ PreflightFrame

\* main with the outcome of fetch_and_check: nothing catches what it raises;
\* a False lets the snapshot and the creation follow.
PreflightOutcome ==
    /\ Running("branch")
    /\ pf_pc \in {"returned", "raised"}
    /\ IF pf_pc = "raised"
       THEN /\ Exit(ExitFail, "crash")
            /\ blocked' = "error"
       ELSE /\ blocked' = IF pf_result = "True" THEN "yes" ELSE "no"
            /\ pc' = IF PreflightAllows(pf_result = "True")
                     THEN FirstStep ELSE "switchover"
            /\ UNCHANGED <<exitCode, outcome>>
    /\ UNCHANGED <<provider, wait, runs, target_version, instance_type, lookups,
                   current_version, upgrade_needed, bg_identifier,
                   switchover_status, database_name, instances, next_instance, writes,
                   resume_status, observed, waited>>
    /\ UNCHANGED aux

\* A run that has reached the else-branch of main with an upgrade to do,
\* against any secret, any slots and any set of installed extensions.
InitPreflightAlone ==
    /\ resKind = "instance"
    /\ engine = "postgres"
    /\ engineVersion = <<1>>
    /\ backupRetention \in 0..MinBackupRetention
    /\ snapshots = 0
    /\ bgSnapshots = 0
    /\ bgStatus = "NONE"
    /\ bgTarget = NoVersion
    /\ oldExists = FALSE
    /\ memberState = [m \in Members |-> "gone"]
    /\ runs = 1
    /\ pc = "branch"
    /\ target_version = <<1, MaxMinor>>
    /\ instance_type = "RDS"
    /\ current_version = <<1>>
    /\ upgrade_needed = TRUE
    /\ bg_identifier = "None"
    /\ switchover_status = "None"
    /\ blocked = "unset"
    /\ database_name = "None"
    /\ instances = <<>>
    /\ next_instance = 1
    /\ exitCode = NoExit
    /\ outcome = "none"
    /\ writes = <<>>
    /\ resume_status = "unset"
    /\ observed = {}
    /\ waited = FALSE
    /\ lookups = <<"describe_db_clusters", "describe_db_instances">>
    /\ InitWait
    /\ InitInput
    /\ InitOlder
    /\ InitPGroups
    /\ InitClients
    /\ InitInitiate
    /\ InitNaming
    /\ InitAccount
    /\ InitAlarms
    /\ pf_pc = "idle"
    /\ secret_host \in FieldValues
    /\ secret_password \in FieldValues
    /\ pg_replication_slots \in [SlotNames -> SlotStates]
    /\ installed \in SUBSET ExtensionNames
    /\ replication_slots_flag = "unset"
    /\ extensions_flag = "unset"
    /\ pf_calls = <<>>
    /\ pf_error = "none"
    /\ pf_result = "unset"

NextPreflightAlone ==
    \/ FetchAndCheckCalled
    \/ get_secret
    \/ CheckSecretFields
    \/ check_active_replication_slots
    \/ check_extensions
    \/ FetchAndCheckReturns
    \/ PreflightOutcome
    \/ create_snapshot
    \/ InitiateDescribe
    \/ InitiateModifyRetention
    \/ InitiateCreate

SpecPreflight == InitPreflightAlone /\ [][NextPreflightAlone]_vars

\* --------------------------------- initialize_aws_clients checked on its own
\* The first thing main does, in any environment: each of the variables is
\* absent, present but empty, or set.
EnvValues == {"absent", "empty", "set"}

\* Variant: the session token is not required.
required_env_vars_NoToken == {"AWS_REGION", "AWS_ACCESS_KEY_ID",
                              "AWS_SECRET_ACCESS_KEY"}

required_env_vars == {"AWS_REGION", "AWS_ACCESS_KEY_ID",
                      "AWS_SECRET_ACCESS_KEY", "AWS_SESSION_TOKEN"}

\* [var for var in required_env_vars if var not in os.environ]
missing_vars == {var \in required_env_vars : environ[var] = "absent"}

ClientsFrame == UNCHANGED <<provider, wait, runs, target_version, instance_type,
                            lookups, current_version, upgrade_needed,
                            bg_identifier, switchover_status, blocked,
                            database_name, instances, next_instance, writes,
                            resume_status, observed, waited, input, older,
                            pgroups, pflight, initiate, naming, account,
                            alarms, environ>>

\* if missing_vars: sys.exit(1)
CheckEnvironment ==
    /\ Running("init_clients")
    /\ ic_pc = "start"
    /\ IF missing_vars /= {}
       THEN /\ Exit(ExitFail, "missing_env")
            /\ ic_pc' = "exited"
       ELSE /\ ic_pc' = "rds_client"
            /\ UNCHANGED <<pc, exitCode, outcome>>
    /\ UNCHANGED <<clients_created, api_calls>>
    /\ ClientsFrame

\* rds_client = boto3.client('rds', region_name=aws_region); an exception
\* ends the process with status 1.
CreateRdsClient ==
    /\ Running("init_clients")
    /\ ic_pc = "rds_client"
    /\ \E ok \in BOOLEAN :
         IF ok
         THEN /\ clients_created' = Append(clients_created, "rds")
              /\ ic_pc' = "sts_client"
              /\ UNCHANGED <<pc, exitCode, outcome>>
         ELSE /\ Exit(ExitFail, "client_error")
              /\ ic_pc' = "exited"
              /\ UNCHANGED clients_created
    /\ UNCHANGED api_calls
    /\ ClientsFrame

\* boto3.client('sts', ..).get_caller_identity()['Account']: the client may
\* fail to be created, and the call may fail; either ends the process with
\* status 1.  On success the function returns rds_client.
VerifyCredentials ==
    /\ Running("init_clients")
    /\ ic_pc = "sts_client"
    /\ \E r \in {"ok", "no_client", "call_fails"} :
         /\ clients_created' = IF r = "no_client" THEN clients_created
                               ELSE Append(clients_created, "sts")
         /\ api_calls' = IF r = "no_client" THEN api_calls
                         ELSE Append(api_calls, "get_caller_identity")
         /\ IF r = "ok"
            THEN /\ pc' = "validate"
                 /\ ic_pc' = "returned"
                 /\ UNCHANGED <<exitCode, outcome>>
            ELSE /\ Exit(ExitFail, "client_error")
                 /\ ic_pc' = "exited"
    /\ ClientsFrame

\* main has parsed its arguments and calls initialize_aws_clients.
InitClientsAlone ==
    /\ InitProvider
    /\ runs = 1
    /\ pc = "init_clients"
    /\ target_version \in Versions
    /\ instance_type = "None"
    /\ current_version = NoVersion
    /\ upgrade_needed = FALSE
    /\ bg_identifier = "None"
    /\ switchover_status = "None"
    /\ blocked = "unset"
    /\ database_name = "None"
    /\ instances = <<>>
    /\ next_instance = 1
    /\ exitCode = NoExit
    /\ outcome = "none"
    /\ writes = <<>>
    /\ resume_status = "unset"
    /\ observed = {}
    /\ waited = FALSE
    /\ lookups = <<>>
    /\ InitWait
    /\ InitInput
    /\ InitOlder
    /\ InitPGroups
    /\ InitPreflight
    /\ InitInitiate
    /\ InitNaming
    /\ InitAccount
    /\ InitAlarms
    /\ ic_pc = "start"
    /\ environ \in [EnvVars -> EnvValues]
    /\ clients_created = <<>>
    /\ api_calls = <<>>

NextClientsAlone ==
    \/ CheckEnvironment
    \/ CreateRdsClient
    \/ VerifyCredentials

SpecClients == InitClientsAlone /\ [][NextClientsAlone]_vars

\* ---------------------------- initiate_blue_green_upgrade checked on its own
\* The function taken call by call: the describe that yields the ARN, the
\* describe that yields the retention period, the modify call and its
\* waiter when the period is below one day, and the creation call.  Any
\* failing call returns False, which main ignores.
InitiateFrame == UNCHANGED <<resKind, engine, engineVersion, snapshots,
                            oldExists, memberState, wait, runs, target_version,
                            instance_type, lookups, current_version,
                            upgrade_needed, bg_identifier, switchover_status,
                            blocked, database_name, instances, next_instance,
                            exitCode, outcome, resume_status, observed, waited,
                            input, older, pgroups, pflight, clients,
                            naming, account, alarms>>

\* return False / return bg_identifier: main goes on to its status tests.
InitiateReturns(result) ==
    /\ ib_pc' = result
    /\ pc' = "switchover"

\* describe_db_instances / describe_db_clusters for the ARN.
DescribeSource ==
    /\ Running("bg_describe")
    /\ ib_pc = "start"
    /\ \E ok \in BOOLEAN :
         IF ok THEN ib_pc' = "read_retention" /\ UNCHANGED pc
         ELSE InitiateReturns("returned_false")
    /\ UNCHANGED <<backupRetention, bgStatus, bgTarget, bgSnapshots, writes,
                   backup_retention_period, retention_events,
                   retention_at_create>>
    /\ InitiateFrame

\* Variant: the retention period is never found to be too short.
RetentionTooShort_Never(period) == FALSE

\* if backup_retention_period < 1
RetentionTooShort(period) == period < MinBackupRetention

\* The second describe and .get('BackupRetentionPeriod', 0).
ReadRetention ==
    /\ Running("bg_describe")
    /\ ib_pc = "read_retention"
    /\ \E ok \in BOOLEAN :
         IF ok
         THEN /\ backup_retention_period' = <<backupRetention>>
              /\ ib_pc' = IF RetentionTooShort(backupRetention)
                          THEN "modify" ELSE "create"
              /\ UNCHANGED pc
         ELSE /\ InitiateReturns("returned_false")
              /\ UNCHANGED backup_retention_period
    /\ UNCHANGED <<backupRetention, bgStatus, bgTarget, bgSnapshots, writes,
                   retention_events, retention_at_create>>
    /\ InitiateFrame

\* modify_db_instance / modify_db_cluster with BackupRetentionPeriod=1 and
\* ApplyImmediately=True.
ModifyRetention ==
    /\ Running("bg_describe")
    /\ ib_pc = "modify"
    /\ Issue(ModifyCall, -1)
    /\ \E ok \in BOOLEAN :
         IF ok
         THEN /\ backupRetention' = MinBackupRetention
              /\ retention_events' = Append(retention_events, "modified")
              /\ ib_pc' = "wait"
              /\ UNCHANGED pc
         ELSE /\ retention_events' = Append(retention_events, "modify_failed")
              /\ InitiateReturns("returned_false")
              /\ UNCHANGED backupRetention
    /\ UNCHANGED <<bgStatus, bgTarget, bgSnapshots, backup_retention_period,
                   retention_at_create>>
    /\ InitiateFrame

\* get_waiter('db_instance_available' / 'db_cluster_available').wait(..)
WaitAvailable ==
    /\ Running("bg_describe")
    /\ ib_pc = "wait"
    /\ \E ok \in BOOLEAN :
         IF ok
         THEN /\ retention_events' = Append(retention_events, "waited")
              /\ ib_pc' = "create"
              /\ UNCHANGED pc
         ELSE /\ retention_events' = Append(retention_events, "wait_failed")
              /\ InitiateReturns("returned_false")
    /\ UNCHANGED <<backupRetention, bgStatus, bgTarget, bgSnapshots, writes,
                   backup_retention_period, retention_at_create>>
    /\ InitiateFrame

\* create_blue_green_deployment.
CreateDeployment ==
    /\ Running("bg_describe")
    /\ ib_pc = "create"
    /\ Issue("create_blue_green_deployment", 0)
    /\ retention_at_create' = <<backupRetention>>
    /\ \E ok \in BOOLEAN :
         IF ok /\ bgStatus = "NONE"
         THEN /\ bgStatus' = "PROVISIONING"
              /\ bgTarget' = target_version
              /\ bgSnapshots' = snapshots
              /\ InitiateReturns("returned_identifier")
         ELSE /\ UNCHANGED <<bgStatus, bgTarget, bgSnapshots>>
              /\ InitiateReturns("returned_false")
    /\ UNCHANGED <<backupRetention, backup_retention_period, retention_events>>
    /\ InitiateFrame

\* main is about to call initiate_blue_green_upgrade, the snapshot step
\* behind it, for an accepted resource with any retention period.
InitInitiateAlone ==
    /\ resKind \in {"cluster", "instance"}
    /\ engine = (IF resKind = "cluster" THEN "aurora-postgresql" ELSE "postgres")
    /\ engineVersion \in Versions
    /\ backupRetention \in 0..(MinBackupRetention + 1)
    /\ snapshots \in 0..1
    /\ bgSnapshots = 0
    /\ bgStatus = "NONE"
    /\ bgTarget = NoVersion
    /\ oldExists = FALSE
    /\ memberState = [m \in Members |-> "gone"]
    /\ runs = 1
    /\ pc = "bg_describe"
    /\ target_version \in {t \in Versions : validate_versions(engineVersion, t)}
    /\ instance_type = (IF resKind = "cluster" THEN "Aurora" ELSE "RDS")
    /\ current_version = engineVersion
    /\ upgrade_needed = TRUE
    /\ bg_identifier = "None"
    /\ switchover_status = "None"
    /\ blocked = "no"
    /\ database_name = "None"
    /\ instances = <<>>
    /\ next_instance = 1
    /\ exitCode = NoExit
    /\ outcome = "none"
    /\ writes = IF snapshots = 1 THEN <<Call(SnapshotCall, 0)>> ELSE <<>>
    /\ resume_status = "unset"
    /\ observed = {}
    /\ waited = FALSE
    /\ lookups = IF resKind = "cluster" THEN <<"describe_db_clusters">>
                 ELSE <<"describe_db_clusters", "describe_db_instances">>
    /\ InitWait
    /\ InitInput
    /\ InitOlder
    /\ InitPGroups
    /\ InitPreflight
    /\ InitClients
    /\ InitNaming
    /\ InitAccount
    /\ InitAlarms
    /\ ib_pc = "start"
    /\ backup_retention_period = <<>>
    /\ retention_events = <<>>
    /\ retention_at_create = <<>>

NextInitiateAlone ==
    \/ DescribeSource
    \/ ReadRetention
    \/ ModifyRetention
    \/ WaitAvailable
    \/ CreateDeployment

SpecInitiate == InitInitiateAlone /\ [][NextInitiateAlone]_vars

\* ------------------------------------------ runs after a partial deletion
\* The provider as an earlier run left it when it deleted the blue/green
\* deployment and then stopped or failed before the superseded resource was
\* deleted: no deployment, the superseded resource and its members in place,
\* the identifier naming the upgraded resource.  bgTarget is NoVersion until
\* a later run creates a deployment again.
InitProviderLeftover ==
    /\ resKind \in {"cluster", "instance"}
    /\ engine = (IF resKind = "cluster" THEN "aurora-postgresql" ELSE "postgres")
    /\ engineVersion \in Versions
    /\ backupRetention \in 0..MinBackupRetention
    /\ snapshots = 0
    /\ bgSnapshots = 0
    /\ bgStatus = "NONE"
    /\ bgTarget = NoVersion
    /\ oldExists = TRUE
    /\ \E n \in 0..MaxMembers :
         /\ resKind /= "cluster" => n = 0
         /\ memberState = [m \in Members |->
                             IF m <= n THEN "available" ELSE "gone"]

InitLeftover == InitProviderLeftover /\ InitRun /\ InitWait /\ InitAux

SpecLeftover == InitLeftover /\ [][Next]_vars

\* ------------------------------------- the deployment name checked on its own
\* blue_green_deployment_name as a function of the identifier, strings being
\* sequences of characters.
NameLimit == 60       \* max_length = 60 - len("bg-deployment-")

\* "bg-deployment-"
NamePrefix == <<"b", "g", "-", "d", "e", "p", "l", "o", "y", "m", "e", "n",
                "t", "-">>

\* Python's s[:n] for n >= 0.
SliceTo(str, n) == SubSeq(str, 1, IF Len(str) < n THEN Len(str) ELSE n)

\* Variant: the length of the prefix is not taken off.
max_length_Whole == NameLimit

\* max_length = 60 - len("bg-deployment-")
max_length == NameLimit - Len(NamePrefix)

\* f"bg-deployment-{identifier[:max_length]}"
DeploymentName(id) == NamePrefix \o SliceTo(id, max_length)

\* Identifiers of every length up to the bound: the same character
\* throughout, two characters alternating, and a change of character at any
\* one position.
Identifiers ==
    UNION {{[i \in 1..n |-> "a"],
            [i \in 1..n |-> IF i % 2 = 1 THEN "a" ELSE "-"]}
           \cup {[i \in 1..n |-> IF i < k THEN "a" ELSE "z"] : k \in 1..n}
           : n \in 1..MaxIdentifierLength}

SetDeploymentName ==
    /\ blue_green_deployment_name = <<>>
    /\ blue_green_deployment_name' = DeploymentName(identifier)
    /\ UNCHANGED <<provider, run, wait, input, older, pgroups, pflight,
                   clients, initiate, account, alarms, identifier>>

\* The name depends on nothing but the identifier.
InitNameAlone ==
    /\ InitProvider
    /\ resKind = "instance"
    /\ engine = "postgres"
    /\ engineVersion = <<1>>
    /\ backupRetention = MinBackupRetention
    /\ InitRun
    /\ InitWait
    /\ InitInput
    /\ InitOlder
    /\ InitPGroups
    /\ InitPreflight
    /\ InitClients
    /\ InitInitiate
    /\ InitAccount
    /\ InitAlarms
    /\ identifier \in Identifiers
    /\ blue_green_deployment_name = <<>>

NextNameAlone == SetDeploymentName

SpecName == InitNameAlone /\ [][NextNameAlone]_vars

\* ------------------------------- the deployment lookup in a shared account
\* get_blue_green_deployment_identifier against an account that holds
\* deployments of several databases, and what main does with the deployment
\* it gets back.  Names and ARNs are sequences of characters.
DatabaseNames == {<<"a", "p", "p">>, <<"a", "p", "p", "2">>,
                  <<"s", "h", "o", "p">>, <<"d", "b">>}

\* arn:aws:rds:us-east-1:1:db:<name>, the ARN of a database instance.
ArnPrefix == <<"a", "r", "n", ":", "a", "w", "s", ":", "r", "d", "s", ":",
               "u", "s", "-", "e", "a", "s", "t", "-", "1", ":", "1", ":",
               "d", "b", ":">>
Arn(name) == ArnPrefix \o name

\* Python's "sub in str".
Contains(str, sub) ==
    \E i \in 0..(Len(str) - Len(sub)) : SubSeq(str, i + 1, i + Len(sub)) = sub

\* A deployment of the database named owner: until the switchover the
\* source carries that name and the target a generated one; the switchover
\* gives the name to the target and renames the source.
DeploymentStatuses == {"PROVISIONING", "AVAILABLE", "SWITCHOVER_COMPLETED"}
Deployment(owner, status) == [owner |-> owner, status |-> status]
SourceName(d) == IF d.status = "SWITCHOVER_COMPLETED"
                 THEN d.owner \o <<"-", "o", "l", "d", "1">>
                 ELSE d.owner
TargetName(d) == IF d.status = "SWITCHOVER_COMPLETED"
                 THEN d.owner
                 ELSE d.owner \o <<"-", "g", "r", "e", "e", "n", "-", "x">>

\* Listings of at most MaxDeployments deployments, one per database at most.
Listings ==
    {l \in UNION {[1..n -> {Deployment(o, st) : o \in DatabaseNames,
                                                st \in DeploymentStatuses}]
                  : n \in 0..MaxDeployments} :
       \A i, j \in 1..Len(l) : l[i].owner = l[j].owner => i = j}

\* if instance_identifier in source_arn or instance_identifier in target_arn
Matches(d, instance_identifier) ==
    \/ Contains(Arn(SourceName(d)), instance_identifier)
    \/ Contains(Arn(TargetName(d)), instance_identifier)

\* The loop returns at the first deployment that matches; 0 stands for None.
FirstMatch(listing, instance_identifier) ==
    IF \E i \in 1..Len(listing) : Matches(listing[i], instance_identifier)
    THEN CHOOSE i \in 1..Len(listing) :
             /\ Matches(listing[i], instance_identifier)
             /\ \A j \in 1..(i - 1) : ~Matches(listing[j], instance_identifier)
    ELSE 0

AccountFrame == UNCHANGED <<provider, wait, runs, target_version, instance_type,
                            lookups, current_version, upgrade_needed,
                            bg_identifier, blocked, database_name, instances,
                            next_instance, resume_status, observed, waited,
                            input, older, pgroups, pflight, clients, initiate,
                            alarms, identifier, blue_green_deployment_name,
                            deployments>>

\* get_blue_green_deployment_identifier; a failing listing returns None.
LookupInAccount ==
    /\ Running("lookup_bg")
    /\ \E ok \in BOOLEAN :
         found' = IF ok THEN FirstMatch(deployments, identifier) ELSE 0
    /\ pc' = "branch"
    /\ UNCHANGED <<switchover_status, exitCode, outcome, writes>>
    /\ AccountFrame

\* if bg_identifier: the status of that deployment, None when the read fails.
StatusOfFound ==
    /\ Running("branch")
    /\ found /= 0
    /\ \E ok \in BOOLEAN :
         switchover_status' = IF ok THEN deployments[found].status ELSE "None"
    /\ pc' = "switchover"
    /\ UNCHANGED <<found, exitCode, outcome, writes>>
    /\ AccountFrame

\* else: the provisioning branch, which leaves switchover_status None.
NothingFound ==
    /\ Running("branch")
    /\ found = 0
    /\ pc' = "switchover"
    /\ UNCHANGED <<found, switchover_status, exitCode, outcome, writes>>
    /\ AccountFrame

\* The status tests of main against the deployment found: a switchover call
\* when it is AVAILABLE, a deletion call when it is SWITCHOVER_COMPLETED.
ActOnFound ==
    /\ Running("switchover")
    /\ IF SwitchoverDue
       THEN /\ Issue("switchover_blue_green_deployment", found)
            /\ \E ok \in BOOLEAN :
                 switchover_status' = IF ok THEN "SWITCHOVER_IN_PROGRESS"
                                      ELSE "False"
            /\ pc' = "wait"
            /\ UNCHANGED <<exitCode, outcome>>
       ELSE IF DeletionDue
       THEN /\ Issue("delete_blue_green_deployment", found)
            /\ pc' = "del_modify"
            /\ UNCHANGED <<switchover_status, exitCode, outcome>>
       ELSE /\ Finish
            /\ UNCHANGED <<switchover_status, writes>>
    /\ UNCHANGED found
    /\ AccountFrame

\* A run for one of the databases, with an upgrade to do, about to look for
\* its deployment in an account with any listing.
InitLookupAlone ==
    /\ InitProvider
    /\ resKind = "instance"
    /\ engine = "postgres"
    /\ engineVersion = <<1>>
    /\ backupRetention = MinBackupRetention
    /\ runs = 1
    /\ pc = "lookup_bg"
    /\ target_version = <<1, MaxMinor>>
    /\ instance_type = "RDS"
    /\ current_version = <<1>>
    /\ upgrade_needed = TRUE
    /\ bg_identifier = "None"
    /\ switchover_status = "None"
    /\ blocked = "unset"
    /\ database_name = "None"
    /\ instances = <<>>
    /\ next_instance = 1
    /\ exitCode = NoExit
    /\ outcome = "none"
    /\ writes = <<>>
    /\ resume_status = "unset"
    /\ observed = {}
    /\ waited = FALSE
    /\ lookups = <<"describe_db_clusters", "describe_db_instances">>
    /\ InitWait
    /\ InitInput
    /\ InitOlder
    /\ InitPGroups
    /\ InitPreflight
    /\ InitClients
    /\ InitInitiate
    /\ InitAlarms
    /\ identifier \in DatabaseNames
    /\ blue_green_deployment_name = <<>>
    /\ deployments \in Listings
    /\ found = 0

NextLookupAlone ==
    \/ LookupInAccount
    \/ StatusOfFound
    \/ NothingFound
    \/ ActOnFound

SpecLookup == InitLookupAlone /\ [][NextLookupAlone]_vars

\* ----------------------------------------------------- aws-aurora-alarms
\* The loop of the script over the alarms it fetched.  An alarm is a
\* dictionary (a function from keys to values); its name is a sequence of
\* parts, one of which may be the source instance name.
source_instance == "nstar-dnsdata-20230417-prd-1-prod"
target_writer_instance == "nstar-dns-data-20240904-prd-1-prod-01"
target_reader_instance == "nstar-dns-data-20240904-prd-1-prod-02"
target_alarm_name_identifier == "nstar-dns-data-20240904-prd-1-prod"

Dimension(name, value) == [Name |-> name, Value |-> value]

\* What describe_alarms may return for one alarm.
AlarmNames == {<<"cpu-", source_instance>>,
               <<source_instance, "-mem-", source_instance>>,
               <<"cpu-", "another-instance">>}
AlarmDimensions ==
    {<<Dimension("DBClusterIdentifier", "source-cluster")>>,
     <<Dimension("DBInstanceIdentifier", source_instance)>>,
     <<Dimension("Role", "WRITER"),
       Dimension("DBClusterIdentifier", "source-cluster")>>}
FetchedAlarm(name, dims, withData) ==
    IF withData
    THEN [k \in {"AlarmName", "Dimensions", "MetricName", "AlarmArn",
                 "StateValue", "StateReasonData"} |->
            CASE k = "AlarmName" -> name
              [] k = "Dimensions" -> dims
              [] k = "MetricName" -> <<"CPUUtilization">>
              [] k = "AlarmArn" -> <<"arn">> \o name
              [] k = "StateValue" -> <<"OK">>
              [] k = "StateReasonData" -> <<"{}">>]
    ELSE [k \in {"AlarmName", "Dimensions", "MetricName", "AlarmArn",
                 "StateValue"} |->
            CASE k = "AlarmName" -> name
              [] k = "Dimensions" -> dims
              [] k = "MetricName" -> <<"CPUUtilization">>
              [] k = "AlarmArn" -> <<"arn">> \o name
              [] k = "StateValue" -> <<"OK">>]
FetchedAlarms == {FetchedAlarm(n, d, w) : n \in AlarmNames,
                                         d \in AlarmDimensions, w \in BOOLEAN}

\* str.replace(old, new) on a name: every occurrence of the part old gives
\* way to new.
RECURSIVE Replace(_, _, _)
Replace(name, old, new) ==
    IF name = <<>> THEN <<>>
    ELSE (IF Head(name) = old THEN new ELSE <<Head(name)>>)
         \o Replace(Tail(name), old, new)

\* Variant: the reader alarm gets the writer's name.
ReaderSuffix_Writer == "-writer"

ReaderSuffix == "-reader"
WriterSuffix == "-writer"

\* 'DBClusterIdentifier' in [dim['Name'] for dim in alarm['Dimensions']]
HasClusterDimension(alarm) ==
    \E i \in 1..Len(alarm["Dimensions"]) :
        alarm["Dimensions"][i].Name = "DBClusterIdentifier"

\* new_dimensions_writer / new_dimensions_reader
NewDimensions(alarm, instance) ==
    IF HasClusterDimension(alarm)
    THEN <<Dimension("DBClusterIdentifier", instance)>>
    ELSE <<Dimension("DBInstanceIdentifier", instance)>>

keys_to_remove == {"AlarmArn", "StateValue", "StateReason", "StateReasonData",
                   "StateUpdatedTimestamp", "StateTransitionedTimestamp",
                   "AlarmConfigurationUpdatedTimestamp"}

\* alarm.pop(key, None) for every key of keys_to_remove
Popped(alarm) == [k \in (DOMAIN alarm) \ keys_to_remove |-> alarm[k]]

\* alarm['AlarmName'] = ..; alarm['Dimensions'] = ..
Renamed(alarm, name, dims) ==
    [alarm EXCEPT !["AlarmName"] = name, !["Dimensions"] = dims]

AlarmsFrame == UNCHANGED <<provider, run, wait, input, older, pgroups, pflight,
                           clients, initiate, naming, account, fetched>>

\* The head of the loop body: an alarm without the source name in its name
\* is passed over; otherwise the names and dimensions of both copies are
\* computed and the dictionary becomes the writer's.
ProcessAlarm ==
    /\ al_pc = "loop"
    /\ alarm_index <= Len(all_alarms)
    /\ LET alarm == all_alarms[alarm_index] IN
         IF Contains(alarm["AlarmName"], <<source_instance>>)
         THEN /\ new_alarm_name_reader' =
                     Replace(alarm["AlarmName"], source_instance,
                             <<target_alarm_name_identifier, ReaderSuffix>>)
              /\ new_dimensions_reader' =
                     NewDimensions(alarm, target_reader_instance)
              /\ all_alarms' = [all_alarms EXCEPT ![alarm_index] =
                     Popped(Renamed(alarm,
                         Replace(alarm["AlarmName"], source_instance,
                                 <<target_alarm_name_identifier, WriterSuffix>>),
                         NewDimensions(alarm, target_writer_instance)))]
              /\ al_pc' = "put_writer"
              /\ UNCHANGED alarm_index
         ELSE /\ alarm_index' = alarm_index + 1
              /\ UNCHANGED <<al_pc, all_alarms, new_alarm_name_reader,
                             new_dimensions_reader>>
    /\ UNCHANGED puts
    /\ AlarmsFrame

\* put_metric_alarm(**alarm) for the writer; a failure is printed.
PutWriterAlarm ==
    /\ al_pc = "put_writer"
    /\ \E ok \in BOOLEAN :
         puts' = Append(puts, [alarm |-> all_alarms[alarm_index], ok |-> ok,
                               of |-> alarm_index])
    /\ al_pc' = "put_reader"
    /\ UNCHANGED <<all_alarms, alarm_index, new_alarm_name_reader,
                   new_dimensions_reader>>
    /\ AlarmsFrame

\* The dictionary becomes the reader's; put_metric_alarm(**alarm) again.
PutReaderAlarm ==
    /\ al_pc = "put_reader"
    /\ all_alarms' = [all_alarms EXCEPT ![alarm_index] =
           Renamed(all_alarms[alarm_index], new_alarm_name_reader,
                   new_dimensions_reader)]
    /\ \E ok \in BOOLEAN :
         puts' = Append(puts, [alarm |-> all_alarms'[alarm_index], ok |-> ok,
                               of |-> alarm_index])
    /\ alarm_index' = alarm_index + 1
    /\ al_pc' = "loop"
    /\ UNCHANGED <<new_alarm_name_reader, new_dimensions_reader>>
    /\ AlarmsFrame

\* The list is exhausted.
AlarmLoopEnds ==
    /\ al_pc = "loop"
    /\ alarm_index > Len(all_alarms)
    /\ al_pc' = "done"
    /\ UNCHANGED <<all_alarms, alarm_index, new_alarm_name_reader,
                   new_dimensions_reader, puts>>
    /\ AlarmsFrame

\* Every page has been fetched: any list of at most MaxAlarms alarms.
InitAlarmsAlone ==
    /\ InitProvider
    /\ resKind = "cluster"
    /\ engine = "aurora-postgresql"
    /\ engineVersion = <<1>>
    /\ backupRetention = MinBackupRetention
    /\ InitRun
    /\ InitWait
    /\ InitInput
    /\ InitOlder
    /\ InitPGroups
    /\ InitPreflight
    /\ InitClients
    /\ InitInitiate
    /\ InitNaming
    /\ InitAccount
    /\ al_pc = "loop"
    /\ fetched \in UNION {[1..n -> FetchedAlarms] : n \in 0..MaxAlarms}
    /\ all_alarms = fetched
    /\ alarm_index = 1
    /\ new_alarm_name_reader = <<>>
    /\ new_dimensions_reader = <<>>
    /\ puts = <<>>

NextAlarmsAlone ==
    \/ ProcessAlarm
    \/ PutWriterAlarm
    \/ PutReaderAlarm
    \/ AlarmLoopEnds

SpecAlarms == InitAlarmsAlone /\ [][NextAlarmsAlone]_vars

\* ================================================================== claims
\* Numeric reading of a dotted version, missing components being zero.
Comp(v, i) == IF i <= Len(v) THEN v[i] ELSE 0
Newer(a, b) == \/ Comp(a, 1) > Comp(b, 1)
               \/ Comp(a, 1) = Comp(b, 1) /\ Comp(a, 2) > Comp(b, 2)
Same(a, b) == Comp(a, 1) = Comp(b, 1) /\ Comp(a, 2) = Comp(b, 2)
Resolved == current_version /= NoVersion
IndexOf(name) == CHOOSE i \in 1..Len(writes) : writes[i][1] = name

\* C1: in a run whose resolved current version is greater than the target
\* version no provider write call is issued, whatever deployment exists.
C1_NoWriteOnDowngrade ==
    (Resolved /\ Newer(current_version, target_version)) => writes = <<>>

\* A downgrade run ended while a deployment ready for switchover exists.
C1_Witness ==
    /\ pc = "done" /\ Resolved
    /\ Newer(current_version, target_version)
    /\ bgStatus = "AVAILABLE"
    /\ bg_identifier = "bg"

\* C2: a run with current version greater than target version ends as a
\* validation failure with exit status 1, not as "no upgrade needed".
C2_DowngradeExitsOne ==
    (pc = "done" /\ Resolved /\ Newer(current_version, target_version))
        => (exitCode = ExitFail /\ outcome /= "no_upgrade_needed")

\* C3: in a run whose resolved current version equals the target version
\* the run reports "no upgrade needed", exits 0, issues no write call, and
\* no step of the run changes provider state.
C3_EqualIsNoOp ==
    /\ [](  (Resolved /\ Same(current_version, target_version))
            => /\ writes = <<>>
               /\ pc = "done" => (exitCode = ExitOk
                                  /\ outcome = "no_upgrade_needed"))
    /\ [][ (Resolved /\ Same(current_version, target_version) /\ pc' /= pc)
            => UNCHANGED provider ]_vars

\* An equal-version run ended, the two versions written differently, with a
\* deployment present.
C3_Witness ==
    /\ pc = "done" /\ Resolved
    /\ Same(current_version, target_version)
    /\ current_version /= target_version
    /\ outcome = "no_upgrade_needed"
    /\ bgStatus /= "NONE"

\* C4: create_blue_green_deployment is issued only in a run whose version
\* gate said upgrade required, whose lookup found no deployment and whose
\* pre-flight check said not blocked, and at most once per run.
C4_CreateOnlyWhenAllowed ==
    /\ Issued("create_blue_green_deployment")
         => /\ Newer(target_version, current_version)
            /\ bg_identifier = "None"
            /\ blocked = "no"
    /\ CountIssued("create_blue_green_deployment") <= 1

\* The creation call was issued and the provider is provisioning.
C4_Witness ==
    /\ Issued("create_blue_green_deployment")
    /\ bgStatus = "PROVISIONING"
    /\ pc = "done"

\* C5: when the pre-flight check reports blocked, the run issues no write
\* call (no snapshot, no retention change, no creation), enters no wait,
\* and ends.
C5_BlockedIsHardStop ==
    blocked = "yes"
        => /\ writes = <<>>
           /\ ~waited /\ checks = 0 /\ waitResult = "idle"
           /\ pc \in {"switchover", "wait", "delete", "done"}
           /\ pc = "done" => outcome = "finished"

\* A blocked run has ended.
C5_Witness == blocked = "yes" /\ pc = "done" /\ exitCode = ExitOk

\* C6: a run that finds a deployment for the identifier resumes from its
\* status whatever the resolved version: it reads the status, and on
\* AVAILABLE issues the switchover, on SWITCHOVER_IN_PROGRESS polls, on
\* SWITCHOVER_COMPLETED deletes the wrapper.
C6_ResumesFromObservedStatus ==
    (pc = "done" /\ bg_identifier = "bg")
        => /\ resume_status /= "unset"
           /\ resume_status = "AVAILABLE"
                => Issued("switchover_blue_green_deployment")
           /\ resume_status = "SWITCHOVER_IN_PROGRESS" => waited
           /\ resume_status = "SWITCHOVER_COMPLETED"
                => Issued("delete_blue_green_deployment")

\* C7: delete_blue_green_deployment is issued only in a run that observed
\* SWITCHOVER_COMPLETED; the superseded resource is modified or deleted only
\* after the wrapper deletion returned its name; after a failed wrapper
\* deletion nothing further is issued.
C7_DeletionOrder ==
    /\ Issued("delete_blue_green_deployment")
         => "SWITCHOVER_COMPLETED" \in observed
    /\ \A i \in 1..Len(writes) :
         writes[i][1] \in {"delete_db_instance", "delete_db_cluster"}
           => /\ database_name = "old"
              /\ \E j \in 1..(i - 1) :
                   writes[j][1] = "delete_blue_green_deployment"
    /\ (Issued("delete_blue_green_deployment") /\ database_name = "None"
        /\ pc /= "delete")
         => writes[Len(writes)][1] = "delete_blue_green_deployment"

\* The superseded instance was deleted after the wrapper.
C7_Witness ==
    /\ Issued("delete_db_instance")
    /\ instance_type = "RDS"
    /\ ~oldExists
    /\ bgStatus = "NONE"

\* C8: delete_db_cluster is issued only after delete_db_instance has been
\* issued, successfully, for every listed member of the cluster.
C8_MembersBeforeCluster ==
    Issued("delete_db_cluster")
        => \A k \in 1..Len(instances) :
             /\ \E i \in 1..(IndexOf("delete_db_cluster") - 1) :
                  writes[i] = Call("delete_db_instance", instances[k])
             /\ memberState[instances[k]] /= "available"

\* The cluster delete was issued for a cluster that listed every member.
C8_Witness ==
    /\ Issued("delete_db_cluster")
    /\ Len(instances) = MaxMembers

\* C9: every invocation of wait_for_bg_switchover that has ended issued at
\* least one status check.
C9_AtLeastOneCheck ==
    waitResult \in {"returned", "raised"} => checks >= 1

\* C10: wait_for_bg_switchover returns no later than timeout time units
\* after it started.
C10_ReturnsByTimeout ==
    waitResult = "returned" => elapsed <= timeout

\* C11: the poll loop returns SWITCHOVER_COMPLETED exactly when one of its
\* checks observed it, and does so right after that check: every earlier
\* check was followed by one sleep, the completing check by none, and no
\* check follows it.  Every other observation is followed by a sleep, and a
\* return on timeout hands back a status one of its checks observed, after
\* as many sleeps as checks.  (Poll loop checked alone.)
C11_EarlyReturnOnlyOnCompleted ==
    /\ waitResult = "running" =>
         /\ "SWITCHOVER_COMPLETED" \notin observed
         /\ elapsed = checks * interval
    /\ waitResult = "returned" =>
         /\ (wait_status = "SWITCHOVER_COMPLETED")
              <=> ("SWITCHOVER_COMPLETED" \in observed)
         /\ wait_status \in observed
         /\ IF wait_status = "SWITCHOVER_COMPLETED"
            THEN elapsed = (checks - 1) * interval
            ELSE elapsed = checks * interval /\ ~LoopContinues

\* The loop slept on a failed read and on an unfinished switchover, then
\* returned on completion.
C11_Witness ==
    /\ waitResult = "returned"
    /\ wait_status = "SWITCHOVER_COMPLETED"
    /\ {"None", "SWITCHOVER_IN_PROGRESS"} \subseteq observed
    /\ checks >= 3

\* The loop timed out on a terminal failure it kept polling.
C11_WitnessTimeout ==
    /\ waitResult = "returned"
    /\ wait_status = "SWITCHOVER_FAILED"
    /\ checks >= 2

\* C12 as stated: a snapshot call is issued only if the read ended inside the
\* confirmation window with the answer yes; once the window has run out
\* before the read ended, timeout_input returns 'no'; an answer arriving
\* after the window never leads to a snapshot call.
C12_SnapshotOnlyWithinWindow ==
    /\ writes /= <<>> => readAt = "in_window" /\ Lower(user_input) = "yes"
    /\ (fg \in {"returned", "done"} /\ readAt /= "in_window")
         => confirm_snapshot = "no"
    /\ readAt \in {"late", "after_check"} => writes = <<>>

\* C12 amended: a snapshot call is issued only if the read had ended with the
\* answer yes (in either case) by the time the foreground thread tested
\* is_alive() after join returned; when the reader is still alive at that
\* test timeout_input returns 'no' without waiting further, and an answer
\* arriving after the test never leads to a snapshot call.
C12_SnapshotOnlyIfReadBeforeLivenessTest ==
    /\ writes /= <<>> =>
         /\ readAt \in {"in_window", "late"}
         /\ Lower(user_input) = "yes"
         /\ writes = <<Call(SnapshotCall, 0)>>
    /\ (fg \in {"returned", "done"} /\ readAt \in {"never", "after_check"})
         => confirm_snapshot = "no"
    /\ readAt = "after_check" => writes = <<>>

\* The operator typed yes after the foreground thread had given up; the
\* step ended without a snapshot call.
C12_Witness ==
    /\ fg = "done"
    /\ readAt = "after_check"
    /\ user_input = "yes"
    /\ confirm_snapshot = "no"
    /\ writes = <<>>

\* C13: whenever a run issues the deletion of the superseded instance or
\* cluster (or of a member of it), all of which skip the final snapshot, a
\* manual snapshot of the source existed when the blue/green deployment was
\* created.
C13_SnapshotBeforeDeletion ==
    (Issued("delete_db_instance") \/ Issued("delete_db_cluster"))
        => bgSnapshots >= 1

\* Deletion calls of the cleanup stage.
DeleteCalls == {"delete_blue_green_deployment", "delete_db_instance",
                "delete_db_cluster"}
NoDeletionIssued == \A i \in 1..Len(writes) : writes[i][1] \notin DeleteCalls

\* C14: the switchover call is issued only in a run whose status read of the
\* existing deployment returned AVAILABLE, and at most once in a run; right
\* after the call the stage holds SWITCHOVER_IN_PROGRESS (or False) without
\* another status read; after a successful call the same run enters the
\* poll loop; after a failed call the run issues no status poll and no
\* deletion.
C14_SwitchoverOnlyWhenAvailable ==
    /\ Issued("switchover_blue_green_deployment") =>
         /\ resume_status = "AVAILABLE"
         /\ bg_identifier = "bg"
         /\ CountIssued("switchover_blue_green_deployment") = 1
    /\ (Issued("switchover_blue_green_deployment") /\ pc = "wait") =>
         /\ switchover_status \in {"SWITCHOVER_IN_PROGRESS", "False"}
         /\ observed = {"AVAILABLE"}
    /\ (Issued("switchover_blue_green_deployment") /\ pc /= "wait"
        /\ switchover_status /= "False") => waited
    /\ switchover_status = "False" =>
         /\ ~waited
         /\ checks = 0
         /\ observed = {"AVAILABLE"}
         /\ writes = <<Call("switchover_blue_green_deployment", 0)>>

\* A run switched over successfully, polled, and ended.
C14_Witness ==
    /\ Issued("switchover_blue_green_deployment")
    /\ waited
    /\ pc = "done"

\* A run whose switchover call failed has ended.
C14_WitnessFailed == switchover_status = "False" /\ pc = "done"

\* C15: a run that issues create_blue_green_deployment, or that reads
\* PROVISIONING for an existing deployment, issues no wait, no switchover
\* call and no deletion; a run that issues the switchover call has created
\* nothing itself and has read AVAILABLE.
C15_ProvisioningRunStops ==
    /\ (Issued("create_blue_green_deployment")
        \/ resume_status = "PROVISIONING") =>
         /\ ~waited
         /\ ~Issued("switchover_blue_green_deployment")
         /\ NoDeletionIssued
    /\ Issued("switchover_blue_green_deployment") =>
         /\ ~Issued("create_blue_green_deployment")
         /\ resume_status = "AVAILABLE"
         /\ runs >= 2

\* A second run found the deployment of the first still PROVISIONING and
\* ended without a write.
C15_Witness ==
    /\ runs = 2
    /\ resume_status = "PROVISIONING"
    /\ pc = "done"
    /\ writes = <<>>

\* A run created the deployment and ended.
C15_WitnessCreated ==
    /\ Issued("create_blue_green_deployment")
    /\ bgStatus = "PROVISIONING"
    /\ pc = "done"

\* validate_rds_or_aurora has been called and has ended, one way or another.
Validated == lookups /= <<>>

C16_WitnessRefused ==
    /\ resKind = "instance"
    /\ engine = "mysql"
    /\ lookups = <<"describe_db_clusters", "describe_db_instances">>
    /\ exitCode = ExitFail

\* No part of the string is a numeral / every part is one.
NonNumeric(v) == \A i \in 1..Len(v) : v[i] \notin NumericParts
FullyNumeric(v) == \A i \in 1..Len(v) : v[i] \in NumericParts

\* C17: a version string without a numeral in it (such as "abc") is ordered
\* after every fully numeric version, by version_less_than on the parsed
\* values and by the sort of main.
C17_NonNumericSortsLast ==
    /\ (vpc \in {"compared", "sorted"} /\ NonNumeric(version1)
        /\ FullyNumeric(version2)) =>
         /\ ~less
         /\ version_less_than(parse_engine_version(version2),
                              parse_engine_version(version1))
    /\ (vpc = "sorted" /\ NonNumeric(version1) /\ FullyNumeric(version2)) =>
         rds_instances = <<version2, version1>>

\* The i-th component of a numeric version string as a number, zero when
\* the string has no such component.
NumVal(v, i) == IF i <= Len(v) THEN IntOf(v[i]) ELSE 0

\* Component-wise numeric order and equality, missing components being zero.
NumericallyLess(a, b) ==
    \E i \in 1..Max(Len(a), Len(b)) :
        /\ NumVal(a, i) < NumVal(b, i)
        /\ \A j \in 1..(i - 1) : NumVal(a, j) = NumVal(b, j)
SameVersion(a, b) ==
    \A i \in 1..Max(Len(a), Len(b)) : NumVal(a, i) = NumVal(b, i)

NumericVersionStrings == {v \in VersionStrings : FullyNumeric(v)}
LessThan(a, b) ==
    version_less_than(parse_engine_version(a), parse_engine_version(b))

\* C18: on dotted numeric version strings, version_less_than of the parsed
\* values is the component-wise numeric order with missing trailing
\* components read as zero, a strict total order on versions: irreflexive,
\* asymmetric, transitive, and two strings are unordered exactly when they
\* denote the same version; 15.8 is less than 15.10 and not less than 15.1,
\* and 15 and 15.0 are equal.
C18_StrictTotalOrder ==
    (vpc = "compared" /\ FullyNumeric(version1) /\ FullyNumeric(version2)) =>
        /\ less <=> NumericallyLess(version1, version2)
        /\ version1 = version2 => ~less
        /\ ~(less /\ LessThan(version2, version1))
        /\ (~less /\ ~LessThan(version2, version1))
             <=> SameVersion(version1, version2)
        /\ \A c \in NumericVersionStrings :
             (less /\ LessThan(version2, c)) => LessThan(version1, c)
        /\ (version1 = <<"15", "8">> /\ version2 = <<"15", "10">>) => less
        /\ (version1 = <<"15", "8">> /\ version2 = <<"15", "1">>) => ~less
        /\ (version1 = <<"15">> /\ version2 = <<"15", "0">>)
             => ~less /\ ~LessThan(version2, version1)

\* 15.8 was found less than 15.10.
C18_Witness ==
    /\ vpc = "compared"
    /\ version1 = <<"15", "8">>
    /\ version2 = <<"15", "10">>
    /\ less

\* The handler has taken the branch on is_major_upgrade and made the first
\* step of the side it took.
PastBranch ==
    \/ pg_pc \in {"get_cluster", "apply_cluster", "get_instance",
                  "apply_instance", "returned", "raised"}
    \/ pg_pc = "create_instance" /\ instance_type = "Aurora"
TargetMajorGreater ==
    IntOf(target_version[1]) > IntOf(current_version[1])
CallNames == [i \in 1..Len(writes) |-> writes[i][1]]

\* C19: handle_parameter_groups_upgrade issues no parameter-group call at
\* all when the target major version is not greater than the current one
\* (15.1 to 15.8, or a downgrade); when it is greater, the first thing the
\* major branch does is to create a new group of the target's family: the
\* cluster group for Aurora, the instance group for RDS.
C19_GroupsCreatedOnlyOnMajorUpgrade ==
    /\ ~TargetMajorGreater => writes = <<>>
    /\ (TargetMajorGreater /\ PastBranch) =>
         /\ writes /= <<>>
         /\ writes[1][1] = (IF instance_type = "Aurora"
                            THEN "create_db_cluster_parameter_group"
                            ELSE "create_db_parameter_group")
         /\ writes[1][2].family =
              <<IF instance_type = "Aurora" THEN "aurora-postgresql"
                ELSE "postgres", IntOf(target_version[1])>>

\* The handler returned from the minor upgrade 15.1 to 15.8 of an instance
\* without a call.
C19_Witness ==
    /\ pg_pc = "returned"
    /\ instance_type = "RDS"
    /\ current_version = <<"15", "1">>
    /\ target_version = <<"15", "8">>
    /\ writes = <<>>

\* The handler created the cluster group for the major upgrade 10.8 to 15.8.
C19_WitnessMajor ==
    /\ instance_type = "Aurora"
    /\ current_version = <<"10", "8">>
    /\ target_version = <<"15", "8">>
    /\ Issued("create_db_cluster_parameter_group")

\* The user-sourced parameters of an old group, over all its pages.
UserSourced(pages) ==
    {pages[i][j] : <<i, j>> \in {<<i, j>> \in (1..Len(pages)) \X (1..2) :
                                    j <= Len(pages[i])
                                    /\ pages[i][j].Source = "user"}}
\* A modify call carries exactly those, each with pending-reboot.
CarriesUserSourced(call, pages, group) ==
    /\ call[2].group = group
    /\ Len(call[2].Parameters) = Cardinality(UserSourced(pages))
    /\ {[ParameterName |-> q.ParameterName,
         ParameterValue |-> q.ParameterValue] :
            q \in {call[2].Parameters[k] : k \in 1..Len(call[2].Parameters)}}
       = {[ParameterName |-> p.ParameterName,
           ParameterValue |-> p.ParameterValue] : p \in UserSourced(pages)}
    /\ \A k \in 1..Len(call[2].Parameters) :
         call[2].Parameters[k].ApplyMethod = "pending-reboot"
ModifyIfAny(name, pages) == IF UserSourced(pages) = {} THEN <<>> ELSE <<name>>

\* C20: every modify call carries exactly the user-sourced parameters of the
\* corresponding old group, from all its pages, each with pending-reboot, to
\* the group created just before it; a handler that has returned from a
\* major upgrade has, for Aurora, created the cluster group and the instance
\* group and populated each, for RDS the instance group only, without a
\* modify call for an old group that has no user-sourced parameter.
C20_UserParametersCopied ==
    /\ \A i \in 1..Len(writes) :
         /\ writes[i][1] = "modify_db_cluster_parameter_group" =>
              /\ CarriesUserSourced(writes[i], oldClusterPages, "new-cluster-pg")
              /\ UserSourced(oldClusterPages) /= {}
              /\ i > 1 /\ writes[i - 1][1] = "create_db_cluster_parameter_group"
         /\ writes[i][1] = "modify_db_parameter_group" =>
              /\ CarriesUserSourced(writes[i], oldInstancePages, "new-instance-pg")
              /\ UserSourced(oldInstancePages) /= {}
              /\ i > 1 /\ writes[i - 1][1] = "create_db_parameter_group"
    /\ (pg_pc = "returned" /\ TargetMajorGreater) =>
         CallNames =
            (IF instance_type = "Aurora"
             THEN <<"create_db_cluster_parameter_group">>
                  \o ModifyIfAny("modify_db_cluster_parameter_group",
                                 oldClusterPages)
             ELSE <<>>)
            \o <<"create_db_parameter_group">>
            \o ModifyIfAny("modify_db_parameter_group", oldInstancePages)

\* An Aurora major upgrade returned after four calls, the cluster group's
\* only user-sourced parameter being on its second page.
C20_Witness ==
    /\ pg_pc = "returned"
    /\ instance_type = "Aurora"
    /\ Len(writes) = 4
    /\ Len(oldClusterPages) = 2
    /\ oldClusterPages[1][1].Source = "system"
    /\ oldClusterPages[2][1].Source = "user"

\* An RDS major upgrade returned with the create call alone.
C20_WitnessNothingToCopy ==
    /\ pg_pc = "returned"
    /\ instance_type = "RDS"
    /\ CallNames = <<"create_db_parameter_group">>

\* The five names of the deny-list.
DenyList == {"pg_partman", "pg_cron", "pglogical", "pgactive", "pgaudit"}
AnActiveSlot == \E n \in SlotNames : pg_replication_slots[n] = "active"
ADeniedExtension == \E e \in installed : e \in DenyList
Called(f) == \E i \in 1..Len(pf_calls) : pf_calls[i] = f

\* C21: when fetch_and_check returns, it returns True exactly when an active
\* replication slot exists or an installed extension is one of the five
\* flagged names, and False otherwise; and once the slot check has completed
\* without error the extension check is made as well, whatever the slot
\* check found.
C21_BlockedIffSlotOrDeniedExtension ==
    /\ pf_pc = "returned" =>
         /\ pf_result = Bool(AnActiveSlot \/ ADeniedExtension)
         /\ pf_calls = <<"get_secret", "check_active_replication_slots",
                         "check_extensions">>
    /\ (replication_slots_flag /= "unset"
        /\ pf_pc \in {"return", "returned", "raised"}) =>
         Called("check_extensions")

\* Blocked by an active slot alone, the extension check made all the same.
C21_Witness ==
    /\ pf_pc = "returned"
    /\ pf_result = "True"
    /\ replication_slots_flag = "True"
    /\ extensions_flag = "False"
    /\ Called("check_extensions")

\* Blocked by pgaudit alone.
C21_WitnessExtension ==
    /\ pf_pc = "returned"
    /\ pf_result = "True"
    /\ ~AnActiveSlot
    /\ installed = {"pgaudit", "plpgsql"}

\* Not blocked: an inactive slot and an unflagged extension only.
C21_WitnessNotBlocked ==
    /\ pf_pc = "returned"
    /\ pf_result = "False"
    /\ \E n \in SlotNames : pg_replication_slots[n] = "inactive"
    /\ installed = {"plpgsql"}

LacksField == secret_host = "missing" \/ secret_password = "missing"
Connected == Called("check_active_replication_slots") \/ Called("check_extensions")

\* C22: fetch_and_check returns a value only when the secret was fetched,
\* carries host and password, and both database checks succeeded; a failed
\* fetch, a missing field or a failed check makes it raise; with a field
\* missing no database check, hence no connection, is attempted; and in main
\* the error ends the run with no snapshot and no creation call issued.
C22_ErrorsRaiseAndEndTheRun ==
    /\ pf_error /= "none" => pf_pc = "raised" /\ pf_result = "RuntimeError"
    /\ pf_pc \in {"return", "returned"} => pf_error = "none" /\ ~LacksField
    /\ (LacksField /\ pf_pc \notin {"idle", "get_secret", "fields"}) =>
         /\ pf_pc = "raised"
         /\ pf_error \in {"get_secret", "missing_field"}
    /\ LacksField => ~Connected
    /\ (pf_pc = "raised" /\ pc /= "branch") =>
         /\ pc = "done"
         /\ exitCode = ExitFail
         /\ blocked = "error"
         /\ writes = <<>>
         /\ snapshots = 0
         /\ bgStatus = "NONE"

\* The password is missing from a fetched secret: raised, nothing connected to,
\* the run over.
C22_Witness ==
    /\ secret_host = "set"
    /\ secret_password = "missing"
    /\ pf_error = "missing_field"
    /\ pf_calls = <<"get_secret">>
    /\ pc = "done"
    /\ exitCode = ExitFail

\* The extension check fails after the slot check succeeded.
C22_WitnessCheckFails ==
    /\ pf_error = "check_extensions"
    /\ replication_slots_flag = "False"
    /\ pc = "done"
    /\ writes = <<>>

\* The counterpart: a run whose check returned False goes on to create.
C22_WitnessProceeds ==
    /\ pf_pc = "returned"
    /\ Issued("create_blue_green_deployment")

\* The region and credential variables the tool requires.
RequiredVariables == {"AWS_REGION", "AWS_ACCESS_KEY_ID",
                      "AWS_SECRET_ACCESS_KEY", "AWS_SESSION_TOKEN"}
AnyAbsent == \E v \in RequiredVariables : environ[v] = "absent"

\* C23: with any of the four required environment variables absent,
\* initialize_aws_clients creates no provider client and issues no provider
\* call at any moment, and once it has tested the environment the process is
\* over with exit status 1.
C23_MissingVariableExitsBeforeAnyClient ==
    AnyAbsent =>
        /\ clients_created = <<>>
        /\ api_calls = <<>>
        /\ lookups = <<>>
        /\ writes = <<>>
        /\ ic_pc /= "start" =>
             /\ ic_pc = "exited"
             /\ pc = "done"
             /\ exitCode = ExitFail
             /\ outcome = "missing_env"

\* Only the session token is absent, and the process has exited.
C23_Witness ==
    /\ environ["AWS_SESSION_TOKEN"] = "absent"
    /\ \A v \in RequiredVariables \ {"AWS_SESSION_TOKEN"} : environ[v] = "set"
    /\ pc = "done"
    /\ exitCode = ExitFail

\* The counterpart: nothing absent, both clients created, identity verified.
C23_WitnessAllPresent ==
    /\ ~AnyAbsent
    /\ clients_created = <<"rds", "sts">>
    /\ api_calls = <<"get_caller_identity">>
    /\ pc = "validate"

RetentionEvent(e) == \E i \in 1..Len(retention_events) : retention_events[i] = e

\* C24: when create_blue_green_deployment is issued the backup retention
\* period of the source is at least one day; if the period read was below
\* one day, the modify call has succeeded and the waiter has returned before
\* the creation; and after a failed modify call or a failed wait the function
\* has returned without a creation call.
C24_RetentionAtLeastOneAtCreate ==
    /\ Issued("create_blue_green_deployment") =>
         /\ retention_at_create /= <<>>
         /\ retention_at_create[1] >= 1
         /\ backup_retention_period /= <<>>
         /\ backup_retention_period[1] < 1 =>
              /\ retention_events = <<"modified", "waited">>
              /\ retention_at_create[1] = 1
              /\ IndexOf(ModifyCall) < IndexOf("create_blue_green_deployment")
    /\ (RetentionEvent("modify_failed") \/ RetentionEvent("wait_failed")) =>
         /\ ib_pc = "returned_false"
         /\ pc = "switchover"
         /\ ~Issued("create_blue_green_deployment")
         /\ bgStatus = "NONE"

\* The period was 0, was raised to 1 and waited on, and the creation call
\* followed.
C24_Witness ==
    /\ backup_retention_period = <<0>>
    /\ retention_events = <<"modified", "waited">>
    /\ retention_at_create = <<1>>
    /\ Issued("create_blue_green_deployment")

\* The waiter failed after a successful modify call: no creation.
C24_WitnessWaitFailed ==
    /\ retention_events = <<"modified", "wait_failed">>
    /\ backupRetention = 1
    /\ ib_pc = "returned_false"

\* The modify call failed: no creation.
C24_WitnessModifyFailed ==
    /\ retention_events = <<"modify_failed">>
    /\ backupRetention = 0
    /\ ib_pc = "returned_false"

Before(a, b) == IndexOf(a) < IndexOf(b)
Provisions == Issued("create_blue_green_deployment")

\* C25 as stated: in a run that issues the creation call, the retention
\* modification comes before the snapshot call, and both come before the
\* creation call.
C25_RetentionThenSnapshotThenCreate ==
    Provisions =>
        /\ Issued(ModifyCall) => Before(ModifyCall, "create_blue_green_deployment")
        /\ Issued(SnapshotCall) => Before(SnapshotCall, "create_blue_green_deployment")
        /\ (Issued(ModifyCall) /\ Issued(SnapshotCall)) =>
             Before(ModifyCall, SnapshotCall)

\* C25 amended: the snapshot step comes first, the retention check with its
\* modification second, the creation call last: nothing has been issued when
\* the snapshot step begins, the retention step issues no call before the
\* snapshot step is over, and in a run that issues the creation call the
\* snapshot call precedes the retention modification and both precede the
\* creation call.
C25_SnapshotThenRetentionThenCreate ==
    /\ pc = "snapshot" => writes = <<>>
    /\ (pc \in {"bg_describe", "bg_modify"} /\ writes /= <<>>) =>
         CallNames = <<SnapshotCall>>
    /\ Provisions =>
        /\ Issued(ModifyCall) => Before(ModifyCall, "create_blue_green_deployment")
        /\ Issued(SnapshotCall) => Before(SnapshotCall, "create_blue_green_deployment")
        /\ (Issued(ModifyCall) /\ Issued(SnapshotCall)) =>
             Before(SnapshotCall, ModifyCall)

\* All three steps issued a call: snapshot, modification, creation.
C25_Witness ==
    /\ Len(writes) = 3
    /\ CallNames = <<SnapshotCall, ModifyCall, "create_blue_green_deployment">>
    /\ backupRetention = MinBackupRetention
    /\ snapshots = 1

\* No deployment has been created for the identifier since the partial
\* deletion.
NoNewDeployment == bgTarget = NoVersion
PastLookup == pc \notin {"idle", "init_clients", "validate", "versions", "lookup_bg"}
ProvisioningCalls == {"create_db_snapshot", "create_db_cluster_snapshot",
                      "create_blue_green_deployment"}

\* A call on "<name>-old1" or on one of its members, and the retention
\* modification, which is made on the database itself.
OnTheDatabaseItself(c) ==
    c[1] \in {"modify_db_instance", "modify_db_cluster"} /\ c[2] = -1
OnSuperseded(c) ==
    /\ c[1] \in {"delete_db_instance", "delete_db_cluster",
                  "modify_db_instance", "modify_db_cluster"}
    /\ ~OnTheDatabaseItself(c)

\* C26: after the deployment was deleted with the superseded resource left
\* in place, and for as long as no new deployment has been created for the
\* identifier, every run finds no deployment, issues no modification and no
\* deletion, and the superseded resource and its members stay as they were;
\* and in any later run whatsoever a modification or deletion of a superseded
\* resource is issued only after that same run has deleted a deployment it
\* found, so never for the one whose deployment is already gone.
C26_NoResumeOfPartialDeletion ==
    /\ NoNewDeployment =>
         /\ bgStatus = "NONE"
         /\ oldExists
         /\ \A m \in Members : memberState[m] /= "deleting"
         /\ PastLookup => bg_identifier = "None"
         /\ \A i \in 1..Len(writes) :
              writes[i][1] \in ProvisioningCalls \/ OnTheDatabaseItself(writes[i])
    /\ \A i \in 1..Len(writes) :
         OnSuperseded(writes[i]) =>
             /\ bg_identifier = "bg"
             /\ ~NoNewDeployment
             /\ \E j \in 1..(i - 1) : writes[j][1] = "delete_blue_green_deployment"

\* A later run for the version already reached ends at once and leaves the
\* superseded resource where it was.
C26_Witness ==
    /\ runs >= 1
    /\ pc = "done"
    /\ outcome = "no_upgrade_needed"
    /\ NoNewDeployment
    /\ oldExists

\* A later run asking for a newer version goes all the way to a new creation
\* call, again without touching the superseded resource.
C26_WitnessUpgradesAgain ==
    /\ runs = 1
    /\ pc = "done"
    /\ Issued("create_blue_green_deployment")
    /\ bgStatus = "PROVISIONING"
    /\ oldExists

Named == blue_green_deployment_name /= <<>>
ClaimedPrefix == <<"b", "g", "-", "d", "e", "p", "l", "o", "y", "m", "e", "n",
                   "t", "-">>
KeptCharacters == IF Len(identifier) < 46 THEN Len(identifier) ELSE 46

\* C27: the deployment name is "bg-deployment-" followed by the first 46
\* characters of the identifier, or by all of it when it has fewer; it is
\* never longer than 60 characters; and an identifier of at most 46
\* characters appears in it whole and unchanged.
C27_NameIsPrefixPlusFirst46 ==
    Named =>
        /\ Len(blue_green_deployment_name) = 14 + KeptCharacters
        /\ \A i \in 1..14 : blue_green_deployment_name[i] = ClaimedPrefix[i]
        /\ \A i \in 1..KeptCharacters :
             blue_green_deployment_name[14 + i] = identifier[i]
        /\ Len(blue_green_deployment_name) <= 60
        /\ Len(identifier) <= 46 =>
             blue_green_deployment_name = ClaimedPrefix \o identifier

\* The longest identifier, cut to a name of exactly 60 characters.
C27_Witness ==
    /\ Len(identifier) = MaxIdentifierLength
    /\ Len(identifier) > 46
    /\ identifier[47] /= identifier[46]
    /\ Len(blue_green_deployment_name) = 60

\* An identifier of exactly 46 characters, kept whole.
C27_WitnessWhole ==
    /\ Len(identifier) = 46
    /\ Len(blue_green_deployment_name) = 60
    /\ blue_green_deployment_name[60] = identifier[46]

\* The deployment's source or target is the resource the identifier names.
BelongsToIdentifier(d) == SourceName(d) = identifier \/ TargetName(d) = identifier
Returned == pc \notin {"lookup_bg"}

\* C28: the lookup returns a deployment only when its source or its target
\* is the resource named by the identifier, and every switchover or deletion
\* call of the run is issued against such a deployment.
C28_LookupReturnsOwnDeployment ==
    /\ (Returned /\ found /= 0) => BelongsToIdentifier(deployments[found])
    /\ \A i \in 1..Len(writes) :
         writes[i][1] \in {"switchover_blue_green_deployment",
                           "delete_blue_green_deployment"} =>
             BelongsToIdentifier(deployments[writes[i][2]])

\* C29: a step that issues delete_db_cluster is taken only in a state in
\* which every member instance of the cluster is gone at the provider.
C29_ClusterDeletedOnlyWhenMembersGone ==
    [][(~Issued("delete_db_cluster") /\ Issued("delete_db_cluster")')
          => \A m \in Members : memberState[m] = "gone"]_vars

NameHasSource(i) ==
    \E k \in 1..Len(fetched[i]["AlarmName"]) :
        fetched[i]["AlarmName"][k] = "nstar-dnsdata-20230417-prd-1-prod"
PutsOf(i) == {j \in 1..Len(puts) : puts[j].of = i}
HasPart(name, part) == \E k \in 1..Len(name) : name[k] = part
OtherKeys(alarm) == (DOMAIN alarm) \ {"AlarmName", "Dimensions"}

\* The two calls j and j + 1 are the writer's and the reader's copy of one
\* alarm: names and dimension values differ, everything else is the same.
WriterThenReader(j) ==
    LET w == puts[j].alarm
        r == puts[j + 1].alarm
    IN  /\ HasPart(w["AlarmName"], "-writer")
        /\ HasPart(r["AlarmName"], "-reader")
        /\ w["AlarmName"] /= r["AlarmName"]
        /\ Len(w["Dimensions"]) = 1
        /\ Len(r["Dimensions"]) = 1
        /\ w["Dimensions"][1].Value = "nstar-dns-data-20240904-prd-1-prod-01"
        /\ r["Dimensions"][1].Value = "nstar-dns-data-20240904-prd-1-prod-02"
        /\ w["Dimensions"][1].Name = r["Dimensions"][1].Name
        /\ OtherKeys(w) = OtherKeys(r)
        /\ \A k \in OtherKeys(w) : w[k] = r[k] /\ w[k] = fetched[puts[j].of][k]

\* C30: for every alarm the loop has dealt with, if its name contains the
\* source instance name exactly two put_metric_alarm calls were issued for
\* it, one after the other, the writer's first and the reader's second,
\* differing in alarm name and dimension value and in nothing else, whether
\* or not the writer's call failed; if its name does not contain the source
\* name no call was issued for it.
C30_WriterThenReaderForEachMatch ==
    \A i \in 1..Len(fetched) :
        i < alarm_index =>
            IF NameHasSource(i)
            THEN /\ Cardinality(PutsOf(i)) = 2
                 /\ \E j \in PutsOf(i) :
                      /\ j + 1 \in PutsOf(i)
                      /\ WriterThenReader(j)
            ELSE PutsOf(i) = {}

\* The writer's call failed, the reader's was issued all the same, and an
\* alarm of another instance was passed over.
C30_Witness ==
    /\ al_pc = "done"
    /\ Len(fetched) = 2
    /\ ~NameHasSource(1)
    /\ NameHasSource(2)
    /\ Len(puts) = 2
    /\ ~puts[1].ok
    /\ puts[2].ok

\* Two matching alarms: four calls.
C30_WitnessTwoMatches ==
    /\ al_pc = "done"
    /\ Len(puts) = 4
    /\ puts[1].of = 1
    /\ puts[4].of = 2

====
